---- MODULE Spec2Model ----
(***************************************************************************)
(* Hanabi rules engine (src/engine): deck creation and seeded shuffle,     *)
(* dealing, action validation, action execution and end-of-game detection. *)
(***************************************************************************)
EXTENDS Integers, Sequences, FiniteSets, TLC

(***************************************************************************)
(* Bounds of the exploration.                                              *)
(***************************************************************************)
\* seeds 0..MaxSeed are played
MaxSeed == 0

\* the first OpeningTurns decisions of a game are free
OpeningTurns == 2

\* calls of executeAction made on a state after it became terminal
MaxCallsAfterEnd == 2

\* a function is called up to MaxRepeats times on the same arguments
MaxRepeats == 2

\* calculateScore is called on stacks of 0..MaxStackValue
MaxStackValue == 6

(***************************************************************************)
(* types.ts                                                                *)
(***************************************************************************)
Red == 0
Yellow == 1
Green == 2
Blue == 3
White == 4

COLORS == <<Red, Yellow, Green, Blue, White>>

\* a faulty composition: two cards of every value
DECK_COMPOSITION_Flat == <<2, 2, 2, 2, 2>>

DECK_COMPOSITION == <<3, 2, 2, 2, 1>>

(***************************************************************************)
(* seeded-rng.ts: Mulberry32 on 32-bit words.  A word is kept as two       *)
(* 16-bit halves [hi, lo] so that no intermediate value leaves the range   *)
(* of the checker's integers; every operator below is arithmetic modulo    *)
(* 2^32, which is what the JavaScript operators ^, |, >>>, Math.imul and   *)
(* the final >>> 0 compute.                                                *)
(***************************************************************************)
Half == 65536

Word(hi, lo) == [hi |-> hi, lo |-> lo]

\* ToUint32 of a non-negative integer below 2^31
ToWord(n) == Word(n \div Half, n % Half)

RECURSIVE Xor16(_, _, _)
Xor16(a, b, n) ==
    IF n = 0 THEN 0
    ELSE ((a + b) % 2) + 2 * Xor16(a \div 2, b \div 2, n - 1)

RECURSIVE Or16(_, _, _)
Or16(a, b, n) ==
    IF n = 0 THEN 0
    ELSE (IF (a % 2) + (b % 2) > 0 THEN 1 ELSE 0) + 2 * Or16(a \div 2, b \div 2, n - 1)

WXor(a, b) == Word(Xor16(a.hi, b.hi, 16), Xor16(a.lo, b.lo, 16))

WOr(a, b) == Word(Or16(a.hi, b.hi, 16), Or16(a.lo, b.lo, 16))

\* a >>> n for 0 < n < 16
WShr(a, n) ==
    LET p == 2 ^ n
        q == 2 ^ (16 - n)
    IN  Word(a.hi \div p, (a.hi % p) * q + a.lo \div p)

WAdd(a, b) ==
    LET lo == a.lo + b.lo
    IN  Word((a.hi + b.hi + lo \div Half) % Half, lo % Half)

\* the 32-bit product of two 16-bit numbers, as a word
Mul16(x, y) ==
    LET x1 == x \div 256
        x0 == x % 256
        y1 == y \div 256
        y0 == y % 256
        m  == x1 * y0 + x0 * y1
        l  == x0 * y0 + (m % 256) * 256
    IN  Word((x1 * y1 + m \div 256 + l \div Half) % Half, l % Half)

\* Math.imul
Imul(a, b) ==
    LET low   == Mul16(a.lo, b.lo)
        cross == (Mul16(a.hi, b.lo).lo + Mul16(a.lo, b.hi).lo) % Half
    IN  Word((low.hi + cross) % Half, low.lo)

\* 0x6d2b79f5
MulberryIncrement == Word(27947, 31221)

\* the state of the generator after one more call: seed += 0x6d2b79f5
NextSeed(seed) == WAdd(seed, MulberryIncrement)

\* the 32-bit numerator of the float the call returns, given the advanced seed
Mulberry32(seed) ==
    LET t0 == seed
        t1 == Imul(WXor(t0, WShr(t0, 15)), WOr(t0, Word(0, 1)))
        t2 == WXor(t1, WAdd(t1, Imul(WXor(t1, WShr(t1, 7)), WOr(t1, Word(0, 61)))))
    IN  WXor(t2, WShr(t2, 14))

\* Math.floor(rng() * n) where rng() = w / 2^32
FloorScale(w, n) == (w.hi * n + (w.lo * n) \div Half) \div Half

(***************************************************************************)
(* deck.ts                                                                 *)
(***************************************************************************)
Card(id, color, value) == [id |-> id, color |-> color, value |-> value]

\* the cards pushed by the innermost loop for one (color, value)
RECURSIVE Copies(_, _, _, _)
Copies(color, value, count, id) ==
    IF count = 0 THEN <<>>
    ELSE <<Card(id, color, value)>> \o Copies(color, value, count - 1, id + 1)

RECURSIVE ValuesFrom(_, _, _)
ValuesFrom(color, value, id) ==
    IF value > 5 THEN <<>>
    ELSE Copies(color, value, DECK_COMPOSITION[value], id)
         \o ValuesFrom(color, value + 1, id + DECK_COMPOSITION[value])

RECURSIVE ColorsFrom(_, _)
ColorsFrom(k, id) ==
    IF k > Len(COLORS) THEN <<>>
    ELSE LET cards == ValuesFrom(COLORS[k], 1, id)
         IN  cards \o ColorsFrom(k + 1, id + Len(cards))

createDeck == ColorsFrom(1, 0)

Swap(s, i, j) == [s EXCEPT ![i] = s[j], ![j] = s[i]]

\* the Fisher-Yates loop; i is the 0-based index of the source
RECURSIVE ShuffleFrom(_, _, _)
ShuffleFrom(result, i, seed) ==
    IF i <= 0 \/ Len(result) = 0 THEN result
    ELSE LET s == NextSeed(seed)
             j == FloorScale(Mulberry32(s), i + 1)
         IN  ShuffleFrom(Swap(result, i + 1, j + 1), i - 1, s)

shuffleDeck(deck, seed) == ShuffleFrom(deck, Len(deck) - 1, ToWord(seed))

\* a faulty variant: const result = deck, the swaps are made in the input
shuffleDeckArraysInPlace(deck, seed) ==
    [result |-> shuffleDeck(deck, seed), deck |-> shuffleDeck(deck, seed)]

\* the two arrays when shuffleDeck returns: result = [...deck] is a new array
\* and the loop writes to result only
shuffleDeckArrays(deck, seed) ==
    [result |-> shuffleDeck(deck, seed), deck |-> deck]

(***************************************************************************)
(* game-state.ts                                                           *)
(***************************************************************************)
PLAYER_COUNT == 2

CARDS_PER_PLAYER == 5

MAX_HINT_TOKENS == 8

MAX_LIFE_TOKENS == 3

MAX_SCORE == 25

Seats == 0..(PLAYER_COUNT - 1)

\* an optional field or value: <<>> is undefined, <<x>> is x
Undefined == <<>>

Some(x) == <<x>>

\* x ?? d
Nullish(x, d) == IF x = Undefined THEN d ELSE x[1]

\* hands dealt from the front of the deck, seat by seat
deal(cards) ==
    [hands |-> [p \in Seats |->
                  SubSeq(cards, p * CARDS_PER_PLAYER + 1, (p + 1) * CARDS_PER_PLAYER)],
     deck  |-> SubSeq(cards, PLAYER_COUNT * CARDS_PER_PLAYER + 1, Len(cards))]

\* deal(deck, playerCount) of the engine for 2 to 5 players
CARDS_PER_PLAYER_2_3 == 5

CARDS_PER_PLAYER_4_5 == 4

\* a faulty variant: five cards whatever the number of players
cardsPerPlayerAlwaysFive(playerCount) == CARDS_PER_PLAYER_2_3

cardsPerPlayer(playerCount) ==
    IF playerCount <= 3 THEN CARDS_PER_PLAYER_2_3 ELSE CARDS_PER_PLAYER_4_5

\* hand.push(deck[idx++]) for every seat in turn, then deck.slice(idx), on
\* a deck that has the cards for every seat
dealPlayers(deck, playerCount) ==
    LET cardsPer == cardsPerPlayer(playerCount)
    IN  [hands |-> [p \in 0..(playerCount - 1) |->
                      [i \in 1..cardsPer |-> deck[p * cardsPer + i]]],
         deck  |-> SubSeq(deck, playerCount * cardsPer + 1, Len(deck))]

initialPlayedStacks == [c \in {COLORS[k] : k \in 1..Len(COLORS)} |-> 0]

createInitialState(seed, hintTokens, lifeTokens) ==
    LET dealt == deal(shuffleDeck(createDeck, seed))
    IN  [hands               |-> dealt.hands,
         playedStacks        |-> initialPlayedStacks,
         discardPile         |-> <<>>,
         hintTokens          |-> hintTokens,
         lifeTokens          |-> lifeTokens,
         currentPlayer       |-> 0,
         deck                |-> dealt.deck,
         actionHistory       |-> <<>>,
         gameOver            |-> FALSE,
         endReason           |-> Undefined,
         finalRoundStarted   |-> Undefined,
         finalRoundTurnsLeft |-> Undefined,
         hintKnowledge       |-> <<>>]

\* createInitialState(seed, playerCount, hintTokens, lifeTokens) of the
\* engine for 2 to 5 players: the state carries playerCount
createInitialStatePlayers(seed, playerCount, hintTokens, lifeTokens) ==
    LET dealt == dealPlayers(shuffleDeck(createDeck, seed), playerCount)
    IN  [hands               |-> dealt.hands,
         playedStacks        |-> initialPlayedStacks,
         discardPile         |-> <<>>,
         hintTokens          |-> hintTokens,
         lifeTokens          |-> lifeTokens,
         currentPlayer       |-> 0,
         deck                |-> dealt.deck,
         actionHistory       |-> <<>>,
         gameOver            |-> FALSE,
         endReason           |-> Undefined,
         finalRoundStarted   |-> Undefined,
         finalRoundTurnsLeft |-> Undefined,
         playerCount         |-> playerCount,
         hintKnowledge       |-> <<>>]

(***************************************************************************)
(* actions.ts                                                              *)
(***************************************************************************)
PlayAction(cardIndex) == [type |-> "play", cardIndex |-> cardIndex]

DiscardAction(cardIndex) == [type |-> "discard", cardIndex |-> cardIndex]

HintAction(targetPlayer, hintType, hintValue) ==
    [type |-> "hint", targetPlayer |-> targetPlayer,
     hintType |-> hintType, hintValue |-> hintValue]

\* does the card carry the hinted color / number
HintMatches(card, hintType, hintValue) ==
    IF hintType = "color" THEN card.color = hintValue ELSE card.value = hintValue

\* a legal action validates to null, modelled as <<>>; an illegal one to the
\* parts of its error message
ValidatePlay(state, action) ==
    LET handSize == Len(state.hands[state.currentPlayer])
    IN  IF action.cardIndex < 0 \/ action.cardIndex >= handSize
        THEN <<"Invalid play: cardIndex ", action.cardIndex,
               " out of range [0, ", handSize - 1, "]">>
        ELSE <<>>

\* a faulty ValidateDiscard: no check of the hint tokens
ValidateDiscardAnyTokens(state, action) ==
    LET handSize == Len(state.hands[state.currentPlayer])
    IN  IF action.cardIndex < 0 \/ action.cardIndex >= handSize
        THEN <<"Invalid discard: cardIndex ", action.cardIndex,
               " out of range [0, ", handSize - 1, "]">>
        ELSE <<>>

ValidateDiscard(state, action) ==
    LET handSize == Len(state.hands[state.currentPlayer])
    IN  IF action.cardIndex < 0 \/ action.cardIndex >= handSize
        THEN <<"Invalid discard: cardIndex ", action.cardIndex,
               " out of range [0, ", handSize - 1, "]">>
        ELSE IF state.hintTokens >= 8
        THEN <<"Cannot discard: already at max hint tokens">>
        ELSE <<>>

\* a faulty ValidateHint: a hint to oneself is let through
ValidateHintToSelf(state, action) ==
    IF state.hintTokens <= 0
    THEN <<"Cannot hint: no hint tokens remaining">>
    ELSE IF action.targetPlayer < 0 \/ action.targetPlayer >= PLAYER_COUNT
    THEN <<"Invalid hint: targetPlayer ", action.targetPlayer, " out of range">>
    ELSE IF action.hintType = "number"
    THEN IF action.hintValue < 1 \/ action.hintValue > 5
         THEN <<"Invalid hint: number hint must be 1-5, got ", action.hintValue>>
         ELSE <<>>
    ELSE IF \E k \in 1..Len(state.hands[action.targetPlayer]) :
                HintMatches(state.hands[action.targetPlayer][k],
                            action.hintType, action.hintValue)
         THEN <<>>
         ELSE <<"Invalid hint: no matching cards in target hand">>

\* a faulty ValidateHint: a number hint has to match a card as well
ValidateHintMustMatch(state, action) ==
    IF state.hintTokens <= 0
    THEN <<"Cannot hint: no hint tokens remaining">>
    ELSE IF action.targetPlayer = state.currentPlayer
    THEN <<"Cannot hint: cannot hint yourself">>
    ELSE IF action.targetPlayer < 0 \/ action.targetPlayer >= PLAYER_COUNT
    THEN <<"Invalid hint: targetPlayer ", action.targetPlayer, " out of range">>
    ELSE IF \E k \in 1..Len(state.hands[action.targetPlayer]) :
                HintMatches(state.hands[action.targetPlayer][k],
                            action.hintType, action.hintValue)
         THEN <<>>
         ELSE <<"Invalid hint: no matching cards in target hand">>

ValidateHint(state, action) ==
    IF state.hintTokens <= 0
    THEN <<"Cannot hint: no hint tokens remaining">>
    ELSE IF action.targetPlayer = state.currentPlayer
    THEN <<"Cannot hint: cannot hint yourself">>
    ELSE IF action.targetPlayer < 0 \/ action.targetPlayer >= PLAYER_COUNT
    THEN <<"Invalid hint: targetPlayer ", action.targetPlayer, " out of range">>
    ELSE IF action.hintType = "number"
    THEN IF action.hintValue < 1 \/ action.hintValue > 5
         THEN <<"Invalid hint: number hint must be 1-5, got ", action.hintValue>>
         ELSE <<>>
    ELSE IF \E k \in 1..Len(state.hands[action.targetPlayer]) :
                HintMatches(state.hands[action.targetPlayer][k],
                            action.hintType, action.hintValue)
         THEN <<>>
         ELSE <<"Invalid hint: no matching cards in target hand">>

validateAction(state, action) ==
    IF action.type = "play" THEN ValidatePlay(state, action)
    ELSE IF action.type = "discard" THEN ValidateDiscard(state, action)
    ELSE IF action.type = "hint" THEN ValidateHint(state, action)
    ELSE <<>>

(***************************************************************************)
(* game-engine.ts                                                          *)
(***************************************************************************)
RECURSIVE SumStacks(_, _)
SumStacks(playedStacks, k) ==
    IF k > Len(COLORS) THEN 0
    ELSE playedStacks[COLORS[k]] + SumStacks(playedStacks, k + 1)

Min(a, b) == IF a < b THEN a ELSE b

\* a faulty variant: the sum without the cap
calculateScoreUncapped(playedStacks) == SumStacks(playedStacks, 1)

calculateScore(playedStacks) == Min(SumStacks(playedStacks, 1), MAX_SCORE)

\* a faulty removal: the last card leaves the hand (pop), whatever the slot
SplicePop(hand, cardIndex) == SubSeq(hand, 1, Len(hand) - 1)

\* hand.splice(cardIndex, 1): the hand without the slot
Splice(hand, cardIndex) ==
    SubSeq(hand, 1, cardIndex) \o SubSeq(hand, cardIndex + 2, Len(hand))

\* a faulty drawCard: the card is copied into the hand and stays on the deck
drawCardCopies(state, playerIndex) ==
    IF Len(state.deck) > 0
    THEN [state EXCEPT !.hands[playerIndex] = Append(@, Head(state.deck))]
    ELSE state

drawCard(state, playerIndex) ==
    IF Len(state.deck) > 0
    THEN [state EXCEPT !.hands[playerIndex] = Append(@, Head(state.deck)),
                       !.deck = Tail(@)]
    ELSE state

advancePlayer(state) ==
    [state EXCEPT !.currentPlayer = (state.currentPlayer + 1) % PLAYER_COUNT]

\* a faulty checkGameEnd: the exhausted final round is looked at first
checkGameEndDeckFirst(state) ==
    IF Nullish(state.finalRoundStarted, FALSE)
       /\ Nullish(state.finalRoundTurnsLeft, 0) <= 0
    THEN [state EXCEPT !.gameOver = TRUE, !.endReason = Some("deck_empty")]
    ELSE IF state.lifeTokens <= 0
    THEN [state EXCEPT !.gameOver = TRUE, !.endReason = Some("lives_zero")]
    ELSE IF calculateScore(state.playedStacks) = MAX_SCORE
    THEN [state EXCEPT !.gameOver = TRUE, !.endReason = Some("max_score")]
    ELSE state

\* a faulty checkGameEnd: the game goes on with no life token left
checkGameEndBelowZero(state) ==
    IF state.lifeTokens < 0
    THEN [state EXCEPT !.gameOver = TRUE, !.endReason = Some("lives_zero")]
    ELSE IF calculateScore(state.playedStacks) = MAX_SCORE
    THEN [state EXCEPT !.gameOver = TRUE, !.endReason = Some("max_score")]
    ELSE IF Nullish(state.finalRoundStarted, FALSE)
            /\ Nullish(state.finalRoundTurnsLeft, 0) <= 0
    THEN [state EXCEPT !.gameOver = TRUE, !.endReason = Some("deck_empty")]
    ELSE state

checkGameEnd(state) ==
    IF state.lifeTokens <= 0
    THEN [state EXCEPT !.gameOver = TRUE, !.endReason = Some("lives_zero")]
    ELSE IF calculateScore(state.playedStacks) = MAX_SCORE
    THEN [state EXCEPT !.gameOver = TRUE, !.endReason = Some("max_score")]
    ELSE IF Nullish(state.finalRoundStarted, FALSE)
            /\ Nullish(state.finalRoundTurnsLeft, 0) <= 0
    THEN [state EXCEPT !.gameOver = TRUE, !.endReason = Some("deck_empty")]
    ELSE state


\* one record of the hint-knowledge table: every field is optional
EmptyKnowledge ==
    [color |-> Undefined, value |-> Undefined,
     excludedColors |-> Undefined, excludedValues |-> Undefined]

\* Map.get and Map.set on the table, a function from card ids to records
MapGet(table, id) == IF id \in DOMAIN table THEN Some(table[id]) ELSE Undefined

MapSet(table, id, record) ==
    [i \in (DOMAIN table) \cup {id} |-> IF i = id THEN record ELSE table[i]]

Includes(seq, x) == \E k \in 1..Len(seq) : seq[k] = x

\* a faulty option removal: the hinted value is appended whatever is known
\* and whatever is excluded already
HintCardAlwaysExcluding(table, card, action) ==
    LET known == Nullish(MapGet(table, card.id), EmptyKnowledge)
    IN  IF HintMatches(card, action.hintType, action.hintValue) THEN
            IF action.hintType = "color"
            THEN MapSet(table, card.id, [known EXCEPT !.color = Some(action.hintValue)])
            ELSE MapSet(table, card.id, [known EXCEPT !.value = Some(action.hintValue)])
        ELSE IF action.hintType = "color" THEN
            MapSet(table, card.id,
                   [known EXCEPT !.excludedColors =
                       Some(Append(Nullish(known.excludedColors, <<>>),
                                   action.hintValue))])
        ELSE
            MapSet(table, card.id,
                   [known EXCEPT !.excludedValues =
                       Some(Append(Nullish(known.excludedValues, <<>>),
                                   action.hintValue))])

\* the body of targetHand.forEach for one card: the table afterwards
HintCard(table, card, action) ==
    LET known == Nullish(MapGet(table, card.id), EmptyKnowledge)
    IN  IF HintMatches(card, action.hintType, action.hintValue) THEN
            IF action.hintType = "color"
            THEN MapSet(table, card.id, [known EXCEPT !.color = Some(action.hintValue)])
            ELSE MapSet(table, card.id, [known EXCEPT !.value = Some(action.hintValue)])
        ELSE IF action.hintType = "color" THEN
            IF known.color = Undefined
               /\ ~Includes(Nullish(known.excludedColors, <<>>), action.hintValue)
            THEN MapSet(table, card.id,
                        [known EXCEPT !.excludedColors =
                            Some(Append(Nullish(known.excludedColors, <<>>),
                                        action.hintValue))])
            ELSE table
        ELSE
            IF known.value = Undefined
               /\ ~Includes(Nullish(known.excludedValues, <<>>), action.hintValue)
            THEN MapSet(table, card.id,
                        [known EXCEPT !.excludedValues =
                            Some(Append(Nullish(known.excludedValues, <<>>),
                                        action.hintValue))])
            ELSE table

\* targetHand.forEach, slot k onwards (1-based)
RECURSIVE HintCards(_, _, _, _)
HintCards(table, targetHand, k, action) ==
    IF k > Len(targetHand) THEN table
    ELSE HintCards(HintCard(table, targetHand[k], action), targetHand, k + 1, action)

\* the 0-based slots of the matched cards, in hand order
RECURSIVE MatchedIndices(_, _, _)
MatchedIndices(targetHand, k, action) ==
    IF k > Len(targetHand) THEN <<>>
    ELSE (IF HintMatches(targetHand[k], action.hintType, action.hintValue)
          THEN <<k - 1>> ELSE <<>>)
         \o MatchedIndices(targetHand, k + 1, action)

\* a faulty token gain: no cap at MAX_HINT_TOKENS
GainHintTokenUncapped(hintTokens) == hintTokens + 1

\* if (state.hintTokens < MAX_HINT_TOKENS) state.hintTokens++
GainHintToken(hintTokens) ==
    IF hintTokens < MAX_HINT_TOKENS THEN hintTokens + 1 ELSE hintTokens

\* a faulty hint cost: the hint is free
SpendHintTokenFree(hintTokens) == hintTokens

\* state.hintTokens--
SpendHintToken(hintTokens) == hintTokens - 1

\* a faulty success test: any card above the stack is taken
PlaySucceedsAbove(playedStacks, card) == card.value > playedStacks[card.color]

\* card.value === (playedStacks[card.color] ?? 0) + 1
PlaySucceeds(playedStacks, card) == card.value = playedStacks[card.color] + 1

\* the play branch: state and event before the common tail
ResolvePlay(state, action) ==
    LET playerIndex == state.currentPlayer
        hand        == state.hands[playerIndex]
        card        == hand[action.cardIndex + 1]
        removed     == [state EXCEPT !.hands[playerIndex] = Splice(hand, action.cardIndex)]
        success     == PlaySucceeds(state.playedStacks, card)
        event       == [type |-> "play", playerIndex |-> playerIndex,
                        cardIndex |-> action.cardIndex, success |-> success,
                        card |-> card]
    IN  IF success
        THEN [state |-> drawCard(
                  [removed EXCEPT !.playedStacks[card.color] = card.value,
                                  !.hintTokens =
                                      IF card.value = 5 THEN GainHintToken(@) ELSE @],
                  playerIndex),
              event |-> event]
        ELSE [state |-> drawCard(
                  [removed EXCEPT !.lifeTokens = @ - 1,
                                  !.discardPile = Append(@, card)],
                  playerIndex),
              event |-> event]

\* the discard branch
ResolveDiscard(state, action) ==
    LET playerIndex == state.currentPlayer
        hand        == state.hands[playerIndex]
        card        == hand[action.cardIndex + 1]
    IN  [state |-> drawCard(
             [state EXCEPT !.hands[playerIndex] = Splice(hand, action.cardIndex),
                           !.discardPile = Append(@, card),
                           !.hintTokens = GainHintToken(@)],
             playerIndex),
         event |-> [type |-> "discard", playerIndex |-> playerIndex,
                    cardIndex |-> action.cardIndex, card |-> card]]

\* a faulty hint branch: the cards of every hand are told, not the target's
ResolveHintEveryHand(state, action) ==
    LET targetHand == state.hands[action.targetPlayer]
        indices    == MatchedIndices(targetHand, 1, action)
    IN  [state |-> [state EXCEPT !.hintTokens = SpendHintToken(@),
                                 !.hintKnowledge =
                                     HintCards(HintCards(@, state.hands[0], 1, action),
                                               state.hands[1], 1, action)],
         event |-> [type |-> "hint", playerIndex |-> state.currentPlayer,
                    targetPlayer |-> action.targetPlayer,
                    hintType |-> action.hintType, hintValue |-> action.hintValue,
                    matchedCardIndices |-> indices,
                    matchedCardIds |->
                        [k \in 1..Len(indices) |-> targetHand[indices[k] + 1].id]]]

\* the hint branch
ResolveHint(state, action) ==
    LET targetHand == state.hands[action.targetPlayer]
        indices    == MatchedIndices(targetHand, 1, action)
    IN  [state |-> [state EXCEPT !.hintTokens = SpendHintToken(@),
                                 !.hintKnowledge =
                                     HintCards(@, targetHand, 1, action)],
         event |-> [type |-> "hint", playerIndex |-> state.currentPlayer,
                    targetPlayer |-> action.targetPlayer,
                    hintType |-> action.hintType, hintValue |-> action.hintValue,
                    matchedCardIndices |-> indices,
                    matchedCardIds |->
                        [k \in 1..Len(indices) |-> targetHand[indices[k] + 1].id]]]

\* a faulty start: an empty deck does not start the final round
StartFinalRoundNever(state) == state

\* the deck just ran out: the final round starts with PLAYER_COUNT turns
StartFinalRound(state) ==
    IF ~Nullish(state.finalRoundStarted, FALSE) /\ Len(state.deck) = 0
    THEN [state EXCEPT !.finalRoundStarted = Some(TRUE),
                       !.finalRoundTurnsLeft = Some(PLAYER_COUNT)]
    ELSE state

\* one turn of the final round is used up
CountFinalRound(state) ==
    IF Nullish(state.finalRoundStarted, FALSE)
    THEN [state EXCEPT !.finalRoundTurnsLeft = Some(Nullish(@, PLAYER_COUNT) - 1)]
    ELSE state

\* a faulty tail: the event is put in front of the history (unshift for push)
FinishActionUnshift(state, event) ==
    checkGameEnd(CountFinalRound(StartFinalRound(advancePlayer(
        [state EXCEPT !.actionHistory = <<event>> \o @]))))

\* the tail every branch shares: history, turn order, final round, game end
FinishAction(state, event) ==
    checkGameEnd(CountFinalRound(StartFinalRound(advancePlayer(
        [state EXCEPT !.actionHistory = Append(@, event)]))))

\* a faulty rejection: the turn is used up before the error is thrown
RejectAfterAdvance(state, err) ==
    [thrown |-> err, state |-> advancePlayer(state), event |-> Undefined]

\* throw new Error(err): nothing of the state has been touched yet
Reject(state, err) == [thrown |-> err, state |-> state, event |-> Undefined]

\* state.hands[action.targetPlayer] is an array: the action names a seat
HasTargetHand(action) ==
    "targetPlayer" \in DOMAIN action /\ action.targetPlayer \in Seats

\* the hint branch entered with an action that names no seat: the token is
\* spent, then targetHand.forEach throws a TypeError on undefined
HintWithoutTarget(state) ==
    [thrown |-> <<"TypeError: Cannot read properties of undefined (reading 'forEach')">>,
     state  |-> [state EXCEPT !.hintTokens = SpendHintToken(@)],
     event  |-> Undefined]

\* throws (thrown is the message) or returns the event and leaves the new state
executeAction(state, action) ==
    LET err == validateAction(state, action)
    IN  IF err # <<>>
        THEN Reject(state, err)
        ELSE IF action.type \notin {"play", "discard"} /\ ~HasTargetHand(action)
        THEN HintWithoutTarget(state)
        ELSE LET resolved == IF action.type = "play" THEN ResolvePlay(state, action)
                             ELSE IF action.type = "discard"
                                  THEN ResolveDiscard(state, action)
                                  ELSE ResolveHint(state, action)
             IN  [thrown |-> <<>>,
                  state  |-> FinishAction(resolved.state, resolved.event),
                  event  |-> Some(resolved.event)]

(***************************************************************************)
(* observation: what a seat is shown of the GameState.                     *)
(***************************************************************************)
\* a card of another seat's hand as the observer sees it
VisibleCard(card) == [cardId |-> card.id, color |-> card.color, value |-> card.value]

\* {...c} of every element of an array of records
CopyEach(cards) == [k \in 1..Len(cards) |-> [f \in DOMAIN cards[k] |-> cards[k][f]]]

\* [...array]: a new array holding the same elements
CopyArray(array) == [k \in 1..Len(array) |-> array[k]]

deepCopyObservation(obs) ==
    [visibleHands   |-> [seat \in DOMAIN obs.visibleHands |->
                            CopyEach(obs.visibleHands[seat])],
     ownHandSize    |-> obs.ownHandSize,
     ownCardIds     |-> CopyArray(obs.ownCardIds),
     hintsRemaining |-> obs.hintsRemaining,
     livesRemaining |-> obs.livesRemaining,
     discardPile    |-> CopyEach(obs.discardPile),
     playedStacks   |-> [c \in DOMAIN obs.playedStacks |-> obs.playedStacks[c]],
     deckCount      |-> obs.deckCount,
     actionHistory  |-> CopyArray(obs.actionHistory)]

\* the seats whose hands are shown: a variant showing every seat
VisibleSeatsAll(seatIndex) == Seats

\* the seats whose hands are shown to seatIndex: if (p === seatIndex) continue
VisibleSeats(seatIndex) == Seats \ {seatIndex}

buildObservation(state, seatIndex) ==
    LET ownHand == state.hands[seatIndex]
    IN  deepCopyObservation(
          [visibleHands   |-> [p \in VisibleSeats(seatIndex) |->
                                  [k \in 1..Len(state.hands[p]) |->
                                      VisibleCard(state.hands[p][k])]],
           ownHandSize    |-> Len(ownHand),
           ownCardIds     |-> [k \in 1..Len(ownHand) |-> ownHand[k].id],
           hintsRemaining |-> state.hintTokens,
           livesRemaining |-> state.lifeTokens,
           discardPile    |-> CopyEach(state.discardPile),
           playedStacks   |-> [c \in DOMAIN state.playedStacks |-> state.playedStacks[c]],
           deckCount      |-> Len(state.deck),
           actionHistory  |-> CopyArray(state.actionHistory)])

\* the seat an observation is for: the seat missing from visibleHands
getSelfSeat(observation) ==
    CHOOSE i \in Seats : i \notin DOMAIN observation.visibleHands /\
        \A j \in Seats : j \notin DOMAIN observation.visibleHands => i <= j

(***************************************************************************)
(* observation, by reference: which objects reachable from an observation  *)
(* are objects of the GameState.  An object made by a copy ({...c}, map,   *)
(* [...array]) belongs to the observation alone (engine = Undefined); an   *)
(* element carried over by [...array] is the object the engine holds.      *)
(***************************************************************************)
OwnObject(at) == [at |-> at, engine |-> Undefined]

EngineObject(at, ref) == [at |-> at, engine |-> Some(ref)]

\* the objects inside the i-th event: its card and its matchedCardIndices array
EventParts(st, i) ==
    LET event == st.actionHistory[i]
    IN  (IF "card" \in DOMAIN event
         THEN {EngineObject(<<"actionHistory", i, "card">>, <<"card", event.card.id>>)}
         ELSE {})
        \cup (IF "matchedCardIndices" \in DOMAIN event
              THEN {EngineObject(<<"actionHistory", i, "matchedCardIndices">>,
                                 <<"matchedCardIndices", i>>)}
              ELSE {})

\* every object reachable from buildObservation(st, seatIndex)
ObservationObjects(st, seatIndex) ==
    {OwnObject(<<"visibleHands">>), OwnObject(<<"ownCardIds">>),
     OwnObject(<<"discardPile">>), OwnObject(<<"playedStacks">>),
     OwnObject(<<"actionHistory">>)}
    \cup {OwnObject(<<"visibleHands", p>>) : p \in VisibleSeats(seatIndex)}
    \cup {OwnObject(<<"visibleHands", p[1], p[2]>>) :
            p \in {q \in VisibleSeats(seatIndex) \X (1..CARDS_PER_PLAYER) :
                      q[2] <= Len(st.hands[q[1]])}}
    \cup {OwnObject(<<"discardPile", k>>) : k \in 1..Len(st.discardPile)}
    \cup {EngineObject(<<"actionHistory", i>>, <<"event", i>>) :
            i \in 1..Len(st.actionHistory)}
    \cup UNION {EventParts(st, i) : i \in 1..Len(st.actionHistory)}

\* the card object id, wherever the GameState holds it, with one field written
WriteCard(st, id, field, value) ==
    LET Written(card) == IF card.id = id THEN [card EXCEPT ![field] = value] ELSE card
        InArray(cards) == [k \in 1..Len(cards) |-> Written(cards[k])]
    IN  [st EXCEPT
            !.hands = [p \in Seats |-> InArray(@[p])],
            !.deck = InArray(@),
            !.discardPile = InArray(@),
            !.actionHistory = [i \in 1..Len(@) |->
                IF "card" \in DOMAIN @[i]
                THEN [@[i] EXCEPT !.card = Written(@)] ELSE @[i]]]

\* the GameState after a holder of the observation assigns value to a field of
\* one of its objects (for an array: to an element)
WriteObject(st, object, field, value) ==
    IF object.engine = Undefined THEN st
    ELSE LET ref == object.engine[1]
         IN  CASE ref[1] = "event" ->
                    [st EXCEPT !.actionHistory[ref[2]][field] = value]
               [] ref[1] = "card" -> WriteCard(st, ref[2], field, value)
               [] ref[1] = "matchedCardIndices" ->
                    [st EXCEPT !.actionHistory[ref[2]].matchedCardIndices =
                        [k \in 1..Len(@) |-> IF k = field THEN value ELSE @[k]]]

(***************************************************************************)
(* observation-knowledge: hint knowledge replayed from the action history. *)
(***************************************************************************)
\* one iteration of the loop of getKnowledgeForCard
ReplayEvent(knowledge, event, cardId, targetSeat) ==
    IF event.type # "hint" \/ event.targetPlayer # targetSeat THEN knowledge
    ELSE LET matched == Includes(event.matchedCardIds, cardId)
         IN  IF event.hintType = "color" THEN
                 IF matched THEN [knowledge EXCEPT !.color = Some(event.hintValue)]
                 ELSE IF ~Includes(Nullish(knowledge.excludedColors, <<>>), event.hintValue)
                 THEN [knowledge EXCEPT !.excludedColors =
                          Some(Append(Nullish(@, <<>>), event.hintValue))]
                 ELSE knowledge
             ELSE
                 IF matched THEN [knowledge EXCEPT !.value = Some(event.hintValue)]
                 ELSE IF ~Includes(Nullish(knowledge.excludedValues, <<>>), event.hintValue)
                 THEN [knowledge EXCEPT !.excludedValues =
                          Some(Append(Nullish(@, <<>>), event.hintValue))]
                 ELSE knowledge

\* the loop of getKnowledgeForCard from event i onwards
RECURSIVE ReplayFrom(_, _, _, _, _)
ReplayFrom(knowledge, actionHistory, i, cardId, targetSeat) ==
    IF i > Len(actionHistory) THEN knowledge
    ELSE ReplayFrom(ReplayEvent(knowledge, actionHistory[i], cardId, targetSeat),
                    actionHistory, i + 1, cardId, targetSeat)

getKnowledgeForCard(actionHistory, cardId, targetSeat) ==
    LET knowledge == ReplayFrom(EmptyKnowledge, actionHistory, 1, cardId, targetSeat)
    IN  IF knowledge # EmptyKnowledge THEN Some(knowledge) ELSE Undefined

getOwnHintKnowledge(observation, slotIndex) ==
    IF slotIndex < 0 \/ slotIndex >= Len(observation.ownCardIds) THEN Undefined
    ELSE getKnowledgeForCard(observation.actionHistory,
                             observation.ownCardIds[slotIndex + 1],
                             getSelfSeat(observation))

getKnownToHolder(observation, cardId) ==
    LET holders == {seat \in DOMAIN observation.visibleHands :
                       \E k \in 1..Len(observation.visibleHands[seat]) :
                           observation.visibleHands[seat][k].cardId = cardId}
    IN  IF holders = {} THEN Undefined
        ELSE getKnowledgeForCard(observation.actionHistory, cardId,
                                 CHOOSE seat \in holders : \A s \in holders : seat <= s)

(***************************************************************************)
(* actions: legality as a strategy sees it, from the observation alone.    *)
(***************************************************************************)
validateActionForObservation(observation, action) ==
    LET handSize == observation.ownHandSize
        selfSeat == getSelfSeat(observation)
    IN  IF action.type = "play" THEN
            IF action.cardIndex < 0 \/ action.cardIndex >= handSize
            THEN <<"Invalid play: cardIndex ", action.cardIndex,
                   " out of range [0, ", handSize - 1, "]">>
            ELSE <<>>
        ELSE IF action.type = "discard" THEN
            IF action.cardIndex < 0 \/ action.cardIndex >= handSize
            THEN <<"Invalid discard: cardIndex ", action.cardIndex,
                   " out of range [0, ", handSize - 1, "]">>
            ELSE IF observation.hintsRemaining >= 8
            THEN <<"Cannot discard: already at max hint tokens">>
            ELSE <<>>
        ELSE IF action.type = "hint" THEN
            IF observation.hintsRemaining <= 0
            THEN <<"Cannot hint: no hint tokens remaining">>
            ELSE IF action.targetPlayer = selfSeat
            THEN <<"Cannot hint: cannot hint yourself">>
            ELSE IF action.targetPlayer < 0 \/ action.targetPlayer >= PLAYER_COUNT
            THEN <<"Invalid hint: targetPlayer ", action.targetPlayer, " out of range">>
            ELSE LET targetHand ==
                         IF action.targetPlayer \in DOMAIN observation.visibleHands
                         THEN observation.visibleHands[action.targetPlayer] ELSE <<>>
                 IN  IF action.hintType = "number"
                     THEN IF action.hintValue < 1 \/ action.hintValue > 5
                          THEN <<"Invalid hint: number hint must be 1-5, got ",
                                 action.hintValue>>
                          ELSE <<>>
                     ELSE IF \E k \in 1..Len(targetHand) :
                                 targetHand[k].color = action.hintValue
                          THEN <<>>
                          ELSE <<"Invalid hint: no matching cards in target hand">>
        ELSE <<>>

\* for (let i = 0; i < handSize; i++) actions.push({type: 'play', cardIndex: i})
LegalPlays(observation) ==
    [k \in 1..observation.ownHandSize |-> PlayAction(k - 1)]

\* a faulty LegalDiscards: the discards are listed whatever the tokens
LegalDiscardsAnyTokens(observation) ==
    [k \in 1..observation.ownHandSize |-> DiscardAction(k - 1)]

\* if (observation.hintsRemaining < 8) the discards of every slot
LegalDiscards(observation) ==
    IF observation.hintsRemaining < 8
    THEN [k \in 1..observation.ownHandSize |-> DiscardAction(k - 1)]
    ELSE <<>>

\* the hints to one target: the colors found in its hand, then the numbers 1-5
LegalHintsTo(observation, target) ==
    LET targetHand == IF target \in DOMAIN observation.visibleHands
                      THEN observation.visibleHands[target] ELSE <<>>
        HasColor(color) == \E k \in 1..Len(targetHand) : targetHand[k].color = color
        found == SelectSeq(COLORS, HasColor)
    IN  [k \in 1..Len(found) |-> HintAction(target, "color", found[k])]
        \o [value \in 1..5 |-> HintAction(target, "number", value)]

\* the loop over the targets, from target onwards
RECURSIVE LegalHintsFrom(_, _)
LegalHintsFrom(observation, target) ==
    IF target >= PLAYER_COUNT THEN <<>>
    ELSE (IF target = getSelfSeat(observation) THEN <<>>
          ELSE LegalHintsTo(observation, target))
         \o LegalHintsFrom(observation, target + 1)

getLegalActionsFromObservation(observation) ==
    LegalPlays(observation) \o LegalDiscards(observation)
    \o (IF observation.hintsRemaining > 0 THEN LegalHintsFrom(observation, 0) ELSE <<>>)

(***************************************************************************)
(* The decision functions (strategies) driving the engine.  A strategy is  *)
(* an opaque function of the observation; the turns below cover the        *)
(* decisions of a family of strategies: free decisions in the opening and  *)
(* around the final round, one fixed decision per turn in between.         *)
(***************************************************************************)
\* the fixed decision: play the first playable card, else discard the oldest
\* card, else give a number hint to the next seat
DefaultDecision(state) ==
    LET seat == state.currentPlayer
        hand == state.hands[seat]
        playable == {k \in 1..Len(hand) :
                        hand[k].value = state.playedStacks[hand[k].color] + 1}
    IN  IF playable # {}
        THEN PlayAction((CHOOSE k \in playable : \A m \in playable : k <= m) - 1)
        ELSE IF state.hintTokens < MAX_HINT_TOKENS /\ Len(hand) > 0
        THEN DiscardAction(0)
        ELSE HintAction((seat + 1) % PLAYER_COUNT, "number", 1)

\* the slots a free decision names: the two ends of the hand and one past each
CardIndexChoices(state) ==
    LET handSize == Len(state.hands[state.currentPlayer])
    IN  {-1, 0, handSize - 1, handSize}

\* the seats a free decision names: every seat, and one past each end
TargetChoices == -1..PLAYER_COUNT

\* the hinted values of a free decision: Red / below the numbers, Yellow / 1,
\* 5 and 6 (no color / above the numbers)
HintValueChoices == {Red, Yellow, 5, 6}

FreeDecisions(state) ==
    {PlayAction(i) : i \in CardIndexChoices(state)}
    \cup {DiscardAction(i) : i \in CardIndexChoices(state)}
    \cup {HintAction(t, ty, v) :
            t \in TargetChoices, ty \in {"color", "number"}, v \in HintValueChoices}

\* the opening turns, and the turns of the final round
FreeTurn(state) ==
    Len(state.actionHistory) < OpeningTurns \/ Nullish(state.finalRoundStarted, FALSE)

\* the actions another caller passes to executeAction once the game is over
AfterEndDecisions(state) ==
    {PlayAction(CARDS_PER_PLAYER - 1), DiscardAction(0),
     HintAction((state.currentPlayer + 1) % PLAYER_COUNT, "number", 1)}

\* values a strategy returns in breach of its contract: an object whose type
\* is none of play, discard, hint, bare or with the fields of a hint
MalformedDecisions(state) ==
    {[type |-> "pass"],
     [type |-> "pass", targetPlayer |-> (state.currentPlayer + 1) % PLAYER_COUNT,
      hintType |-> "color", hintValue |-> Red]}

\* what getAction may return on this turn
Decisions(state) ==
    IF FreeTurn(state) THEN FreeDecisions(state) ELSE {DefaultDecision(state)}

(***************************************************************************)
(* Strategies of the registry.  An instance is an object: the simulation   *)
(* keeps the instances in a table by identity and refers to them by id.    *)
(***************************************************************************)
\* getStrategies(): a strategy that reads observation.legalActions, which
\* this observation does not carry, and one that draws from the legal actions
\* it computes itself
Registry ==
    <<[name |-> "Random", kind |-> "legalActionsOfObservation"],
      [name |-> "HintPartner", kind |-> "legalActionsComputed"]>>

\* new Strategy(42): no seat and no generator yet
NewStrategy(kind) ==
    [kind |-> kind, rngSeed |-> 42, seatIndex |-> 0, rng |-> Undefined]

\* clone(): return new Strategy(this.rngSeed)
CloneOf(base) == [NewStrategy(base.kind) EXCEPT !.rngSeed = base.rngSeed]

\* initialize(config, seatIndex): this.rng = createSeededRNG(rngSeed + seatIndex)
Initialized(instance, seatIndex) ==
    [instance EXCEPT !.seatIndex = seatIndex,
                     !.rng = Some(ToWord(instance.rngSeed + seatIndex))]

\* no legal actions at hand: discard the first card, else play it
FallbackAction(observation) ==
    IF observation.ownHandSize > 0 /\ observation.hintsRemaining < 8
    THEN DiscardAction(0) ELSE PlayAction(0)

\* getAction(observation): what is thrown, the action returned and the
\* instance afterwards (a call of this.rng() advances the generator)
StrategyGetAction(instance, observation) ==
    IF instance.rng = Undefined
    THEN [thrown |-> <<"Strategy not initialized">>, action |-> Undefined,
          instance |-> instance]
    ELSE LET legalActions == IF instance.kind = "legalActionsComputed"
                             THEN getLegalActionsFromObservation(observation)
                             ELSE <<>>
             seed == NextSeed(instance.rng[1])
         IN  IF Len(legalActions) = 0
             THEN [thrown |-> <<>>, action |-> Some(FallbackAction(observation)),
                   instance |-> instance]
             ELSE [thrown |-> <<>>,
                   action |-> Some(legalActions[
                                 FloorScale(Mulberry32(seed), Len(legalActions)) + 1]),
                   instance |-> [instance EXCEPT !.rng = Some(seed)]]


(***************************************************************************)
(* The state: the GameState object, and on the caller's side the action    *)
(* last passed to executeAction and what that call did.                    *)
(***************************************************************************)
VARIABLES state, request, outcome, callsAfterEnd, sim

vars == <<state, request, outcome, callsAfterEnd, sim>>

NoRequest == [type |-> "none"]

NoOutcome == [thrown |-> <<>>, event |-> Undefined]

\* no simulation is running: the engine is driven by runGame or directly
NoSimulation == [phase |-> "none"]

\* the game configurations played
HintTokenConfigs == {0, MAX_HINT_TOKENS}

LifeTokenConfigs == {1, MAX_LIFE_TOKENS}

Init ==
    /\ \E seed \in 0..MaxSeed, hintTokens \in HintTokenConfigs,
          lifeTokens \in LifeTokenConfigs :
            state = createInitialState(seed, hintTokens, lifeTokens)
    /\ request = NoRequest
    /\ outcome = NoOutcome
    /\ callsAfterEnd = 0
    /\ sim = NoSimulation

\* one call executeAction(state, action): the state is mutated in place, or
\* left alone when the call throws
Call(action) ==
    LET result == executeAction(state, action)
    IN  /\ state' = result.state
        /\ request' = action
        /\ outcome' = [thrown |-> result.thrown, event |-> result.event]

\* one iteration of the loop of runGame: while (!state.gameOver); an error
\* thrown by executeAction leaves the loop
GameTurn ==
    /\ ~state.gameOver
    /\ outcome.thrown = <<>>
    /\ \E action \in Decisions(state) : Call(action)
    /\ UNCHANGED <<callsAfterEnd, sim>>

\* executeAction called by another caller on a state that is already terminal
CallAfterEnd ==
    /\ state.gameOver
    /\ outcome.thrown = <<>>
    /\ callsAfterEnd < MaxCallsAfterEnd
    /\ \E action \in AfterEndDecisions(state) : Call(action)
    /\ callsAfterEnd' = callsAfterEnd + 1
    /\ UNCHANGED sim

Next == GameTurn

Spec == Init /\ [][Next]_vars

NextDirect == GameTurn \/ CallAfterEnd

SpecDirect == Init /\ [][NextDirect]_vars

\* the loop driven by a decision function that returns accepted actions
\* only; while (!state.gameOver) goes on as long as it can
GameTurnAccepted == GameTurn /\ outcome'.thrown = <<>>

\* executeAction throws exactly when validateAction returns an error: the
\* loop has an accepted turn to take, i.e. ENABLED <<GameTurnAccepted>>_vars
LoopEnabled ==
    /\ ~state.gameOver
    /\ outcome.thrown = <<>>
    /\ \E action \in Decisions(state) : validateAction(state, action) = <<>>

\* the loop is not suspended for ever: WF_vars(GameTurnAccepted), written
\* out with LoopEnabled for its ENABLED
LoopFairness == []<>(~LoopEnabled) \/ []<><<GameTurnAccepted>>_vars

SpecAccepted == Init /\ [][GameTurnAccepted]_vars /\ LoopFairness

\* a turn of the loop on which getAction returns a malformed value
MalformedTurn ==
    /\ ~state.gameOver
    /\ outcome.thrown = <<>>
    /\ FreeTurn(state)
    /\ \E action \in MalformedDecisions(state) : Call(action)
    /\ UNCHANGED <<callsAfterEnd, sim>>

NextContract == GameTurn \/ MalformedTurn

SpecContract == Init /\ [][NextContract]_vars


(***************************************************************************)
(* simulator/runner: runSimulation and runSingleGame.  sim is the frame of *)
(* runSimulation: its locals, the strategy instances made so far (a table  *)
(* by identity), and the calls the instances received, in order.           *)
(***************************************************************************)
\* the configurations run: seedList, gameCount, tokens and logging mode
SeedLists == {<<>>, <<0, 0>>}

GameCounts == {2}

Configs ==
    [playerCount : {PLAYER_COUNT}, hintTokens : HintTokenConfigs,
     lifeTokens : LifeTokenConfigs, gameCount : GameCounts,
     seedList : SeedLists, loggingMode : {"normal", "debug"}]

\* Array.from({length: count}, (_, i) => i), counting from 1: a faulty variant
generateSeedListFromOne(count) == [i \in 1..count |-> i]

\* Array.from({length: count}, (_, i) => i)
generateSeedList(count) == [i \in 1..count |-> i - 1]

\* runSimulation(config) entered: seeds computed, no strategy begun
EnterSimulation(config, run, firstRun) ==
    [phase |-> "strategies", run |-> run, firstRun |-> firstRun, config |-> config,
     seeds |-> IF Len(config.seedList) > 0 THEN config.seedList
               ELSE generateSeedList(config.gameCount),
     strategyIndex |-> 1, seedIndex |-> 1, games |-> 0,
     instances |-> <<>>, base |-> 0, clones |-> <<>>, calls |-> <<>>,
     deals |-> <<>>, scores |-> <<>>, perGameMetrics |-> <<>>, traces |-> <<>>,
     results |-> <<>>, returned |-> Undefined]

\* a faulty variant: the seed moves on with every game of the strategy
GameSeedByGame(s) == s.seeds[s.seedIndex] + s.seedIndex - 1

\* a faulty variant: the seed depends on the strategy
GameSeedByStrategy(s) == s.seeds[s.seedIndex] + s.strategyIndex - 1

\* for (const seed of seeds)
GameSeed(s) == s.seeds[s.seedIndex]

\* a faulty clone(): return this
CloneIdSelf(s) == s.base

\* the identity of the object base.clone() returns: a new object
CloneId(s) == Len(s.instances) + 1

\* the seats an event is delivered to, the actor alone: a faulty variant
NotifiedActorOnly(clones, actor) == <<actor>>

\* for (const s of strategyClones): every seat, in order
Notified(clones, actor) == [k \in 1..Len(clones) |-> k - 1]

\* one call received by the instance with this identity, made for a seat of a game
CallOf(id, method, game, seat, about) ==
    [id |-> id, method |-> method, game |-> game, seat |-> seat, about |-> about]

\* a faulty variant: every play counts as a misplay
countMislaysAllPlays(events) ==
    Cardinality({k \in 1..Len(events) : events[k].type = "play"})

\* events.filter((e) => e.type === 'play' && !e.success).length
countMislays(events) ==
    Cardinality({k \in 1..Len(events) : events[k].type = "play" /\ ~events[k].success})


\* const clones = Array.from({length: config.playerCount}, () => base.clone())
RECURSIVE MakeClones(_, _, _)
MakeClones(s, game, seat) ==
    IF seat >= s.config.playerCount THEN s
    ELSE LET id    == CloneId(s)
             made  == IF id > Len(s.instances)
                      THEN [s EXCEPT !.instances = Append(@, CloneOf(s.instances[s.base]))]
                      ELSE s
         IN  MakeClones([made EXCEPT !.clones = Append(@, id),
                                     !.calls = Append(@, CallOf(s.base, "clone", game, seat, id))],
                        game, seat + 1)

\* for (let i = 0; i < clones.length; i++) clones[i].initialize(config, i)
RECURSIVE InitializeClones(_, _, _)
InitializeClones(s, game, i) ==
    IF i >= Len(s.clones) THEN s
    ELSE LET id == s.clones[i + 1]
         IN  InitializeClones(
                 [s EXCEPT !.instances[id] = Initialized(@, i),
                           !.calls = Append(@, CallOf(id, "initialize", game, i, i))],
                 game, i + 1)

\* a lifecycle call made on the clones of the seats listed, from the k-th on
RECURSIVE Deliver(_, _, _, _, _, _)
Deliver(s, seats, k, method, game, about) ==
    IF k > Len(seats) THEN s
    ELSE Deliver([s EXCEPT !.calls = Append(@,
                        CallOf(s.clones[seats[k] + 1], method, game, seats[k],
                               about[seats[k]]))],
                 seats, k + 1, method, game, about)

\* every seat in order: for (let seat = 0; seat < config.playerCount; seat++)
AllSeats(s) == [k \in 1..s.config.playerCount |-> k - 1]

\* the FinalState and PerGameMetrics runSingleGame computes once the game is over
FinalStateOf(st) ==
    [score |-> calculateScore(st.playedStacks), livesRemaining |-> st.lifeTokens,
     hintsRemaining |-> st.hintTokens, endReason |-> st.endReason[1],
     playedStacks |-> st.playedStacks, discardPile |-> CopyArray(st.discardPile)]

MetricsOf(st) ==
    LET finalState == FinalStateOf(st)
    IN  [score |-> finalState.score, isPerfect |-> finalState.score = 25,
         livesRemaining |-> finalState.livesRemaining,
         hintsRemaining |-> finalState.hintsRemaining,
         misplayCount |-> countMislays(st.actionHistory),
         endReason |-> finalState.endReason]

\* a faulty trace: the deck order of another seed
TraceOfOtherSeed(st, seed) ==
    [seed |-> seed, initialDeckOrder |-> shuffleDeck(createDeck, seed + 1),
     events |-> CopyArray(st.actionHistory), finalState |-> FinalStateOf(st)]

TraceOf(st, seed) ==
    [seed |-> seed, initialDeckOrder |-> shuffleDeck(createDeck, seed),
     events |-> CopyArray(st.actionHistory), finalState |-> FinalStateOf(st)]


\* runSimulation(config) is called
InitRun ==
    /\ \E config \in Configs : sim = EnterSimulation(config, 1, Undefined)
    /\ state = Undefined
    /\ request = NoRequest
    /\ outcome = NoOutcome
    /\ callsAfterEnd = 0

\* for (const strategyEntry of strategies): base = factory(), empty result lists
BeginStrategy ==
    /\ sim.phase = "strategies"
    /\ sim.strategyIndex <= Len(Registry)
    /\ sim' = [sim EXCEPT
                 !.phase = "seeds", !.seedIndex = 1,
                 !.instances = Append(@, NewStrategy(Registry[sim.strategyIndex].kind)),
                 !.base = Len(sim.instances) + 1,
                 !.deals = Append(@, <<>>),
                 !.scores = <<>>, !.perGameMetrics = <<>>, !.traces = <<>>]
    /\ UNCHANGED <<state, request, outcome, callsAfterEnd>>

\* for (const seed of seeds): the clones are made and initialized, then
\* runSingleGame creates the GameState and calls onGameStart on every seat
StartGame ==
    /\ sim.phase = "seeds"
    /\ sim.seedIndex <= Len(sim.seeds)
    /\ LET seed    == GameSeed(sim)
           game    == sim.games + 1
           cloned  == InitializeClones(
                          MakeClones([sim EXCEPT !.clones = <<>>], game, 0), game, 0)
           initial == createInitialState(seed, sim.config.hintTokens,
                                         sim.config.lifeTokens)
           started == Deliver(cloned, AllSeats(cloned), 1, "onGameStart", game,
                              [seat \in Seats |->
                                  getSelfSeat(buildObservation(initial, seat))])
       IN  /\ state' = initial
           /\ sim' = [started EXCEPT
                        !.phase = "turns", !.games = game,
                        !.deals[sim.strategyIndex] =
                            Append(@, [seed |-> seed, hands |-> initial.hands,
                                       deck |-> initial.deck])]
    /\ request' = NoRequest
    /\ outcome' = NoOutcome
    /\ UNCHANGED callsAfterEnd

\* one iteration of while (!state.gameOver): getAction on the current
\* player's clone, executeAction, onActionResolved on the clones; an error
\* thrown by the strategy or the engine ends runSimulation
RunTurn ==
    /\ sim.phase = "turns"
    /\ ~state.gameOver
    /\ LET seat   == state.currentPlayer
           id     == sim.clones[seat + 1]
           obs    == buildObservation(state, seat)
           got    == StrategyGetAction(sim.instances[id], obs)
           asked  == [sim EXCEPT
                        !.instances[id] = got.instance,
                        !.calls = Append(@, CallOf(id, "getAction", sim.games, seat,
                                     [observer |-> getSelfSeat(obs),
                                      turn |-> Len(obs.actionHistory)]))]
       IN  IF got.thrown # <<>>
           THEN /\ sim' = [asked EXCEPT !.phase = "thrown"]
                /\ outcome' = [thrown |-> got.thrown, event |-> Undefined]
                /\ UNCHANGED <<state, request>>
           ELSE LET result == executeAction(state, got.action[1])
                IN  /\ state' = result.state
                    /\ request' = got.action[1]
                    /\ outcome' = [thrown |-> result.thrown, event |-> result.event]
                    /\ sim' = IF result.thrown # <<>>
                              THEN [asked EXCEPT !.phase = "thrown"]
                              ELSE Deliver(asked, Notified(asked.clones, seat), 1,
                                           "onActionResolved", sim.games,
                                           [s \in Seats |->
                                               Len(result.state.actionHistory)])
    /\ UNCHANGED callsAfterEnd

\* the loop is left: finalState, onGameEnd on every clone, metrics and trace;
\* runSimulation pushes the score and the metrics
EndGame ==
    /\ sim.phase = "turns"
    /\ state.gameOver
    /\ LET ended == Deliver(sim, AllSeats(sim), 1, "onGameEnd", sim.games,
                            [seat \in Seats |-> FinalStateOf(state).endReason])
           metrics == MetricsOf(state)
       IN  sim' = [ended EXCEPT
                     !.phase = "seeds", !.seedIndex = @ + 1,
                     !.scores = Append(@, metrics.score),
                     !.perGameMetrics = Append(@, metrics),
                     !.traces = IF sim.config.loggingMode = "debug"
                                THEN Append(@, TraceOf(state, GameSeed(sim))) ELSE @]
    /\ UNCHANGED <<state, request, outcome, callsAfterEnd>>

\* the seeds are through: results.push({name, scores, perGameMetrics, traces})
EndStrategy ==
    /\ sim.phase = "seeds"
    /\ sim.seedIndex > Len(sim.seeds)
    /\ sim' = [sim EXCEPT
                 !.phase = "strategies", !.strategyIndex = @ + 1,
                 !.results = Append(@,
                     [name |-> Registry[sim.strategyIndex].name,
                      scores |-> sim.scores,
                      perGameMetrics |-> sim.perGameMetrics,
                      traces |-> IF sim.config.loggingMode = "debug"
                                 THEN Some(sim.traces) ELSE Undefined])]
    /\ UNCHANGED <<state, request, outcome, callsAfterEnd>>

\* return {results, seeds}
ReturnResults ==
    /\ sim.phase = "strategies"
    /\ sim.strategyIndex > Len(Registry)
    /\ sim' = [sim EXCEPT !.phase = "done",
                          !.returned = Some([results |-> sim.results,
                                             seeds |-> sim.seeds])]
    /\ UNCHANGED <<state, request, outcome, callsAfterEnd>>

\* runSimulation is called once more with the same config
RunAgain ==
    /\ sim.phase = "done"
    /\ sim.run = 1
    /\ sim' = EnterSimulation(sim.config, 2, sim.returned)
    /\ UNCHANGED <<state, request, outcome, callsAfterEnd>>

NextRun ==
    \/ BeginStrategy \/ StartGame \/ RunTurn \/ EndGame
    \/ EndStrategy \/ ReturnResults \/ RunAgain

SpecRun == InitRun /\ [][NextRun]_vars

(***************************************************************************)
(* Calls of the functions of deck.ts, of deal and of calculateScore.  On   *)
(* the caller's side request is the function called with its arguments    *)
(* and outcome lists what each call of it made so far left behind.         *)
(***************************************************************************)
\* the number of players a game is configured for
PlayerCounts == 2..5

\* seeds passed to shuffleDeck
ShuffleSeeds == (0..MaxSeed) \cup {42}

\* decks passed to shuffleDeck: the new deck and short arrays of its cards
ShuffleDecks == {SubSeq(createDeck, 1, n) : n \in {0, 1, 2, 3, Len(createDeck)}}

\* decks passed to deal: what createInitialState passes, and the new deck
DealDecks == {createDeck} \cup {shuffleDeck(createDeck, seed) : seed \in 0..MaxSeed}

\* stacks passed to calculateScore
StackInputs == [{COLORS[k] : k \in 1..Len(COLORS)} -> 0..MaxStackValue]

FunctionCalls ==
    {[function |-> "createDeck"]}
    \cup {[function |-> "shuffleDeck", deck |-> deck, seed |-> seed] :
             deck \in ShuffleDecks, seed \in ShuffleSeeds}
    \cup {[function |-> "deal", deck |-> deck, playerCount |-> playerCount] :
             deck \in DealDecks, playerCount \in PlayerCounts}
    \cup {[function |-> "calculateScore", playedStacks |-> playedStacks] :
             playedStacks \in StackInputs}

\* nothing returned yet
NoReturns == [thrown |-> <<>>, returns |-> <<>>]

\* a caller about to call one of the functions
InitCalls ==
    /\ request \in FunctionCalls
    /\ outcome = NoReturns
    /\ state = Undefined
    /\ callsAfterEnd = 0
    /\ sim = NoSimulation

\* the caller calls the function named, on the arguments it holds
Calling(function) ==
    /\ state = Undefined
    /\ sim = NoSimulation
    /\ request.function = function
    /\ Len(outcome.returns) < MaxRepeats

Returning(record) ==
    /\ outcome' = [outcome EXCEPT !.returns = Append(@, record)]
    /\ UNCHANGED <<state, callsAfterEnd, sim>>

CallCreateDeck ==
    /\ Calling("createDeck")
    /\ request' = request
    /\ Returning([returned |-> createDeck])

\* the caller keeps the array it passed: request.deck is that array afterwards
CallShuffleDeck ==
    /\ Calling("shuffleDeck")
    /\ LET arrays == shuffleDeckArrays(request.deck, request.seed)
       IN  /\ request' = [request EXCEPT !.deck = arrays.deck]
           /\ Returning([returned |-> arrays.result, passed |-> request.deck])

CallDeal ==
    /\ Calling("deal")
    /\ request' = request
    /\ Returning([returned |-> dealPlayers(request.deck, request.playerCount)])

CallCalculateScore ==
    /\ Calling("calculateScore")
    /\ request' = request
    /\ Returning([returned |-> calculateScore(request.playedStacks)])

NextCalls == CallCreateDeck \/ CallShuffleDeck \/ CallDeal \/ CallCalculateScore

SpecCalls == InitCalls /\ [][NextCalls]_vars

\* a game of the configured number of players: runSingleGame creates the
\* state with config.playerCount and the engine executes the actions
InitPlayers ==
    /\ \E seed \in 0..MaxSeed, playerCount \in PlayerCounts,
          hintTokens \in HintTokenConfigs, lifeTokens \in LifeTokenConfigs :
            state = createInitialStatePlayers(seed, playerCount, hintTokens, lifeTokens)
    /\ request = NoRequest
    /\ outcome = NoOutcome
    /\ callsAfterEnd = 0
    /\ sim = NoSimulation

SpecPlayers == InitPlayers /\ [][Next]_vars

\* the functions called, and the game loop run: calculateScore is called on
\* the stacks of the game as well
InitScore == Init \/ InitCalls

NextScore == (state # Undefined /\ Next) \/ NextCalls

SpecScore == InitScore /\ [][NextScore]_vars

(***************************************************************************)
(* Properties.                                                             *)
(***************************************************************************)
RECURSIVE HandCards(_, _)
HandCards(hands, seat) ==
    IF seat >= PLAYER_COUNT THEN 0 ELSE Len(hands[seat]) + HandCards(hands, seat + 1)

\* the executed call the current state results from
Executed == request.type # "none" /\ outcome.thrown = <<>>

LastEvent == outcome.event[1]

\* the step is a call of executeAction that was not rejected
ExecutedStep == outcome'.thrown = <<>> /\ state'.actionHistory # state.actionHistory

\* C1: the cards of all hands, the deck, the discard pile and the played
\* stacks always add up to 50
CardConservation ==
    HandCards(state.hands, 0) + Len(state.deck) + Len(state.discardPile)
        + SumStacks(state.playedStacks, 1) = 50

\* C1 witness: cards have moved to every place (a stack, the discard pile, a
\* drawn replacement) and a hint has been given
CardConservationWitness ==
    /\ SumStacks(state.playedStacks, 1) > 0
    /\ Len(state.discardPile) > 0
    /\ Len(state.deck) < Len(createDeck) - PLAYER_COUNT * CARDS_PER_PLAYER
    /\ \E k \in 1..Len(state.actionHistory) : state.actionHistory[k].type = "hint"

\* the number of cards drawn by the first n events while the deck lasted
RECURSIVE Draws(_, _)
Draws(history, n) ==
    IF n = 0 THEN 0
    ELSE Draws(history, n - 1) + (IF history[n].type \in {"play", "discard"} THEN 1 ELSE 0)

\* the position in the history of the action that drew the last card of the deck
DeckEmptiedAt(history) ==
    CHOOSE n \in 1..Len(history) :
        /\ Draws(history, n) = Len(createDeck) - PLAYER_COUNT * CARDS_PER_PLAYER
        /\ Draws(history, n - 1) < Draws(history, n)

\* C2: a game that ends with deck_empty has executed exactly PLAYER_COUNT actions
\* after the action that emptied the deck
FinalRoundLength ==
    (state.gameOver /\ state.endReason = Some("deck_empty"))
        => Len(state.actionHistory) - DeckEmptiedAt(state.actionHistory) = PLAYER_COUNT

\* C3: a call of executeAction on a terminal state is rejected and changes nothing
TerminalStateFrozen ==
    [][state.gameOver => (outcome'.thrown # <<>> /\ state' = state)]_vars

\* C4: hintTokens stays within 0..8
HintTokensInRange == state.hintTokens \in 0..8

\* C4 witness: a 5 was played successfully with all 8 tokens present
HintTokensInRangeWitness ==
    /\ Executed
    /\ request.type = "play"
    /\ LastEvent.success
    /\ LastEvent.card.value = 5
    /\ state.hintTokens = 8

\* C5: an executed action that leaves no life token ends the game with lives_zero
LivesZeroFirst ==
    (Len(state.actionHistory) > 0 /\ state.lifeTokens = 0)
        => (state.gameOver /\ state.endReason = Some("lives_zero"))

\* C5 witness: the last life is lost on the turn that exhausts the final round
LivesZeroFirstWitness ==
    /\ Executed
    /\ state.lifeTokens = 0
    /\ state.finalRoundStarted = Some(TRUE)
    /\ state.finalRoundTurnsLeft = Some(0)

\* C6: a Play of the card that continues its stack advances that stack to the
\* card's value, costs no life, discards nothing and reports success; any other
\* Play costs exactly one life, puts the card on the discard pile, leaves the
\* stacks alone and reports failure
PlayResolution ==
    [][(request'.type = "play" /\ ExecutedStep) =>
        LET card  == state.hands[state.currentPlayer][request'.cardIndex + 1]
            event == outcome'.event[1]
        IN  IF card.value = state.playedStacks[card.color] + 1
            THEN /\ state'.playedStacks =
                        [state.playedStacks EXCEPT ![card.color] = card.value]
                 /\ state'.lifeTokens = state.lifeTokens
                 /\ state'.discardPile = state.discardPile
                 /\ event.type = "play" /\ event.success = TRUE
            ELSE /\ state'.lifeTokens = state.lifeTokens - 1
                 /\ state'.discardPile = Append(state.discardPile, card)
                 /\ state'.playedStacks = state.playedStacks
                 /\ event.type = "play" /\ event.success = FALSE]_vars

\* C6 witness: the game has seen a successful Play and a failed one
PlayResolutionWitness ==
    /\ \E k \in 1..Len(state.actionHistory) :
          state.actionHistory[k].type = "play" /\ state.actionHistory[k].success
    /\ \E k \in 1..Len(state.actionHistory) :
          state.actionHistory[k].type = "play" /\ ~state.actionHistory[k].success

\* C7: a Hint costs exactly one token, a Discard gains exactly one, a successful
\* Play of a 5 gains one below 8 and none at 8, every other Play changes nothing
TokenDeltas ==
    [][ExecutedStep =>
        LET before == state.hintTokens
            after  == state'.hintTokens
            card   == state.hands[state.currentPlayer][request'.cardIndex + 1]
        IN  CASE request'.type = "hint"    -> after = before - 1
              [] request'.type = "discard" -> after = before + 1
              [] request'.type = "play"    ->
                    IF card.value = 5 /\ card.value = state.playedStacks[card.color] + 1
                    THEN after = (IF before < 8 THEN before + 1 ELSE 8)
                    ELSE after = before]_vars

\* C7 witness: a 5 was played successfully and fewer than 8 tokens are present
TokenDeltasWitness ==
    /\ Executed
    /\ request.type = "play"
    /\ LastEvent.success
    /\ LastEvent.card.value = 5
    /\ state.hintTokens < 8
    /\ \E k \in 1..Len(state.actionHistory) : state.actionHistory[k].type = "hint"
    /\ \E k \in 1..Len(state.actionHistory) : state.actionHistory[k].type = "discard"

\* C8: a call with an action validateAction finds illegal throws the reason
\* found, returns no event and leaves the whole GameState as it was
FailFast ==
    [][(validateAction(state, request') # <<>>) =>
        /\ outcome'.thrown = validateAction(state, request')
        /\ outcome'.event = Undefined
        /\ state' = state]_vars

\* C8 witness: the last call threw
FailFastWitness == request.type # "none" /\ outcome.thrown # <<>>

\* the card indices the legality claims are checked for
ProbedIndices == -1..(CARDS_PER_PLAYER + 1)

\* C9: a Play or Discard is rejected exactly when its card index is outside the
\* current player's hand, and a Discard also when all 8 hint tokens are present
PlayDiscardLegality ==
    LET handSize == Len(state.hands[state.currentPlayer])
    IN  \A i \in ProbedIndices :
          /\ (validateAction(state, PlayAction(i)) # <<>>)
                <=> (i < 0 \/ i >= handSize)
          /\ (validateAction(state, DiscardAction(i)) # <<>>)
                <=> (i < 0 \/ i >= handSize \/ state.hintTokens = 8)

\* C9 witness: a Play of the slot just past a hand that has shrunk below the
\* dealt size was rejected
PlayDiscardLegalityWitness ==
    /\ request.type = "play"
    /\ request.cardIndex = Len(state.hands[state.currentPlayer])
    /\ request.cardIndex < CARDS_PER_PLAYER
    /\ outcome.thrown # <<>>

\* the hinted values the legality claims are checked for
ProbedHintValues == 0..6

\* C10: a Hint is rejected whenever no hint token is left, the target is the
\* current player or the target is no seat, whatever is hinted
HintPreconditions ==
    \A t \in TargetChoices, ty \in {"color", "number"}, v \in ProbedHintValues :
        (state.hintTokens = 0 \/ t = state.currentPlayer \/ t \notin Seats)
            => validateAction(state, HintAction(t, ty, v)) # <<>>

\* C10 witness: a Hint to another seat was rejected for lack of tokens
HintPreconditionsWitness ==
    /\ request.type = "hint"
    /\ request.targetPlayer \in Seats \ {state.currentPlayer}
    /\ outcome.thrown # <<>>
    /\ state.hintTokens = 0
    /\ Len(state.actionHistory) > 0

\* another face for a card: the next color and the next value
OtherFace(card) ==
    [card EXCEPT !.color = (card.color + 1) % Len(COLORS), !.value = (card.value % 5) + 1]

\* the states that differ from st only in the faces of the cards of seat's hand
\* or in the order of the deck
HiddenVariants(st, seat) ==
    {[st EXCEPT !.hands[seat] = [k \in 1..Len(@) |-> OtherFace(@[k])]],
     [st EXCEPT !.deck = [k \in 1..Len(@) |-> @[Len(@) + 1 - k]]]}

\* C11: the observation of a seat has no visible hand for that seat, shows its
\* own hand by size and card ids only, and is the same in every state that
\* differs only in the faces of that hand or in the order of the deck
InformationHiding ==
    \A seat \in Seats :
        LET obs == buildObservation(state, seat)
            ownHand == state.hands[seat]
        IN  /\ seat \notin DOMAIN obs.visibleHands
            /\ obs.ownHandSize = Len(ownHand)
            /\ obs.ownCardIds = [k \in 1..Len(ownHand) |-> ownHand[k].id]
            /\ \A st \in HiddenVariants(state, seat) : buildObservation(st, seat) = obs

\* C11 witness: a seat was just given a hint, and some state that differs in a
\* hinted card of its hand is observed the same
InformationHidingWitness ==
    /\ Executed
    /\ LastEvent.type = "hint"
    /\ LastEvent.matchedCardIndices # <<>>
    /\ \E st \in HiddenVariants(state, LastEvent.targetPlayer) :
          /\ st.hands # state.hands
          /\ buildObservation(st, LastEvent.targetPlayer)
                = buildObservation(state, LastEvent.targetPlayer)


\* one assignment to each object reachable from the observation of seat
ObservationWrites(st, seat) ==
    {[object |-> o,
      field  |-> IF o.engine = Undefined THEN "value"
                 ELSE CASE o.engine[1][1] = "event" -> "playerIndex"
                        [] o.engine[1][1] = "card" -> "value"
                        [] OTHER -> 1,
      value  |-> IF o.engine = Undefined THEN 0
                 ELSE CASE o.engine[1][1] = "event" ->
                            (st.actionHistory[o.engine[1][2]].playerIndex + 1) % PLAYER_COUNT
                        [] o.engine[1][1] = "card" -> 0
                        [] OTHER -> -1] :
        o \in ObservationObjects(st, seat)}

\* C12: an assignment to any object reachable from an observation changes
\* neither the GameState nor the observation built from it afterwards
ObservationIndependence ==
    \A seat \in Seats :
        \A w \in ObservationWrites(state, seat) :
            LET after == WriteObject(state, w.object, w.field, w.value)
            IN  /\ after = state
                /\ buildObservation(after, seat) = buildObservation(state, seat)


\* C13: the knowledge replayed from the observation of any seat, for each of
\* its own slots and for each card it sees, is the record the engine's
\* hintKnowledge table holds for that card (none where the table has none)
KnowledgeReplayEquivalence ==
    \A seat \in Seats :
        LET obs == buildObservation(state, seat)
        IN  /\ \A slot \in 0..(obs.ownHandSize - 1) :
                  getOwnHintKnowledge(obs, slot)
                      = MapGet(state.hintKnowledge, obs.ownCardIds[slot + 1])
            /\ \A p \in DOMAIN obs.visibleHands :
                  \A k \in 1..Len(obs.visibleHands[p]) :
                      getKnownToHolder(obs, obs.visibleHands[p][k].cardId)
                          = MapGet(state.hintKnowledge, obs.visibleHands[p][k].cardId)


\* the actions the legality of a turn is compared on
ProbedActions ==
    {PlayAction(i) : i \in ProbedIndices}
    \cup {DiscardAction(i) : i \in ProbedIndices}
    \cup {HintAction(t, ty, v) :
            t \in TargetChoices, ty \in {"color", "number"}, v \in ProbedHintValues}

\* C14: while the game is on, the legal actions listed from the current
\* player's observation are exactly the actions validateAction accepts, and
\* validateActionForObservation accepts an action iff validateAction does
LegalActionMirror ==
    ~state.gameOver =>
        LET obs   == buildObservation(state, state.currentPlayer)
            list  == getLegalActionsFromObservation(obs)
            legal == {list[k] : k \in 1..Len(list)}
        IN  /\ legal \subseteq ProbedActions
            /\ \A a \in ProbedActions :
                  /\ (a \in legal) <=> (validateAction(state, a) = <<>>)
                  /\ (validateActionForObservation(obs, a) = <<>>)
                        <=> (validateAction(state, a) = <<>>)

\* C14 witness: after an executed action the game is on with all 8 tokens, so
\* hints are listed and accepted and discards are neither
LegalActionMirrorWitness ==
    /\ Executed
    /\ ~state.gameOver
    /\ state.hintTokens = MAX_HINT_TOKENS
    /\ LET list == getLegalActionsFromObservation(
                       buildObservation(state, state.currentPlayer))
       IN  /\ \E k \in 1..Len(list) : list[k].type = "hint"
           /\ \A k \in 1..Len(list) : list[k].type # "discard"
           /\ validateAction(state, DiscardAction(0)) # <<>>


\* C15: an action whose type is none of play, discard and hint is rejected
\* with an error and no field of the GameState is modified
MalformedActionRejected ==
    [][request'.type \notin {"play", "discard", "hint"}
          => (outcome'.thrown # <<>> /\ state' = state)]_vars


\* the games of one strategy's result: metrics and, in debug mode, the events
SameGame(result, k, m) ==
    /\ result.perGameMetrics[k] = result.perGameMetrics[m]
    /\ result.traces # Undefined =>
          /\ result.traces[1][k].events = result.traces[1][m].events
          /\ result.traces[1][k].finalState = result.traces[1][m].finalState

\* C16: a second runSimulation with the same config returns the same scores
\* as the first, and two games of a strategy on the same seed have the same
\* events, final score and end reason
RunDeterminism ==
    /\ (sim.phase = "done" /\ sim.run = 2) =>
          /\ Len(sim.returned[1].results) = Len(sim.firstRun[1].results)
          /\ \A i \in 1..Len(sim.returned[1].results) :
                sim.returned[1].results[i].scores = sim.firstRun[1].results[i].scores
    /\ \A i \in 1..Len(sim.results) :
          \A k, m \in 1..Len(sim.seeds) :
              sim.seeds[k] = sim.seeds[m] => SameGame(sim.results[i], k, m)

\* C16 witness: the second run has returned; the strategy that draws from its
\* generator played two games on the same seed with several events each
RunDeterminismWitness ==
    /\ sim.phase = "done"
    /\ sim.run = 2
    /\ sim.seeds = <<0, 0>>
    /\ sim.returned = sim.firstRun
    /\ \E i \in 1..Len(sim.results) :
          /\ Registry[i].kind = "legalActionsComputed"
          /\ sim.results[i].traces # Undefined
          /\ Len(sim.results[i].traces[1][1].events) > 2
          /\ \E e \in 1..Len(sim.results[i].traces[1][1].events) :
                sim.results[i].traces[1][1].events[e].type = "hint"
          /\ SameGame(sim.results[i], 1, 2)


\* C17: every strategy plays its k-th game on the k-th seed, and two games on
\* the same seed, of any strategies and at any place in the run, start from
\* the same hands and the same remaining deck
FairComparison ==
    \A i, j \in 1..Len(sim.deals) :
        \A k \in 1..Len(sim.deals[i]), m \in 1..Len(sim.deals[j]) :
            /\ sim.deals[i][k].seed = sim.seeds[k]
            /\ sim.seeds[k] = sim.seeds[m] =>
                  /\ sim.deals[i][k].hands = sim.deals[j][m].hands
                  /\ sim.deals[i][k].deck = sim.deals[j][m].deck

\* C17 witness: both strategies have played the seeds 0 and 1; their deals
\* are the same, and the deals of the two seeds differ
FairComparisonWitness ==
    /\ sim.phase = "done"
    /\ sim.seeds = <<0, 1>>
    /\ Len(sim.deals) = Len(Registry)
    /\ sim.deals[1] = sim.deals[2]
    /\ Len(sim.deals[1]) = Len(sim.seeds)
    /\ sim.deals[1][1].hands # sim.deals[1][2].hands


\* C18: runSimulation returns the configured seedList, or 0..gameCount-1 when
\* it is empty, and every result has one score and one metrics record per
\* seed, the k-th belonging to the k-th seed
SeedListAndResultShape ==
    sim.phase = "done" =>
        LET seeds   == sim.returned[1].seeds
            results == sim.returned[1].results
        IN  /\ seeds = IF sim.config.seedList # <<>> THEN sim.config.seedList
                       ELSE [k \in 1..sim.config.gameCount |-> k - 1]
            /\ Len(results) = Len(Registry)
            /\ \A i \in 1..Len(results) :
                  /\ Len(results[i].scores) = Len(seeds)
                  /\ Len(results[i].perGameMetrics) = Len(seeds)
                  /\ \A k \in 1..Len(seeds) :
                        /\ results[i].scores[k] = results[i].perGameMetrics[k].score
                        /\ sim.deals[i][k].seed = seeds[k]
                        /\ results[i].traces # Undefined =>
                              /\ results[i].traces[1][k].seed = seeds[k]
                              /\ results[i].traces[1][k].finalState.score
                                    = results[i].scores[k]

\* C18 witness: a run with an empty seedList has returned the seeds 0 and 1
\* and two results with two scores each, in debug mode
SeedListAndResultShapeWitness ==
    /\ sim.phase = "done"
    /\ sim.config.seedList = <<>>
    /\ sim.config.loggingMode = "debug"
    /\ sim.returned[1].seeds = <<0, 1>>
    /\ Len(sim.returned[1].results) = 2
    /\ \A i \in 1..2 : Len(sim.returned[1].results[i].scores) = 2


\* the positions in the call log of the calls of these methods on an instance
CallsOn(id, methods) ==
    {k \in 1..Len(sim.calls) : sim.calls[k].id = id /\ sim.calls[k].method \in methods}

LifecycleMethods == {"initialize", "onGameStart", "getAction", "onActionResolved", "onGameEnd"}

GameCalls ==
    LET InGame(c) == c.game = sim.games /\ c.method \notin {"clone", "initialize"}
    IN  SelectSeq(sim.calls, InGame)

\* the call expected at position k of GameCalls when n actions were executed:
\* onGameStart for every seat, then per action a getAction on the actor with
\* its own observation and an onActionResolved for every seat, then, once the
\* game has ended, onGameEnd for every seat
ExpectedCall(k, n) ==
    LET P    == PLAYER_COUNT
        t    == (k - P - 1) \div (P + 1) + 1
        step == (k - P - 1) % (P + 1)
        actor == state.actionHistory[t].playerIndex
    IN  IF k <= P
        THEN [method |-> "onGameStart", seat |-> k - 1, about |-> k - 1]
        ELSE IF k <= P + n * (P + 1)
        THEN IF step = 0
             THEN [method |-> "getAction", seat |-> actor,
                   about |-> [observer |-> actor, turn |-> t - 1]]
             ELSE [method |-> "onActionResolved", seat |-> step - 1, about |-> t]
        ELSE [method |-> "onGameEnd", seat |-> k - (P + n * (P + 1)) - 1,
              about |-> state.endReason[1]]

\* the calls of the current game are the expected ones, made on the clones of
\* their seats; the onGameEnd calls are there iff the game loop was left
ProtocolShape ==
    sim.phase \in {"turns", "seeds", "strategies", "done"} /\ sim.games > 0 =>
        LET n     == Len(state.actionHistory)
            calls == GameCalls
        IN  /\ Len(calls) = PLAYER_COUNT + n * (PLAYER_COUNT + 1)
                              + (IF sim.phase = "turns" THEN 0 ELSE PLAYER_COUNT)
            /\ \A k \in 1..Len(calls) :
                  /\ [method |-> calls[k].method, seat |-> calls[k].seat,
                      about |-> calls[k].about] = ExpectedCall(k, n)
                  /\ calls[k].id = sim.clones[calls[k].seat + 1]

\* C20: runSingleGame calls onGameStart on every seat, then per turn getAction
\* on the current player's instance with that seat's observation and
\* onActionResolved once on every instance, and as soon as the state is
\* terminal leaves the loop and calls onGameEnd once on every instance
GameLoopProtocol ==
    /\ []ProtocolShape
    /\ [][(sim.phase = "turns" /\ state.gameOver) =>
            (sim'.phase = "seeds" /\ state' = state)]_vars
    /\ [][(sim.phase = "turns" /\ sim'.phase = "seeds") => state.gameOver]_vars

\* C20 witness: a game of several turns, both seats having acted, has ended
\* and onGameEnd was delivered
GameLoopProtocolWitness ==
    /\ sim.phase = "seeds"
    /\ sim.games > 0
    /\ Len(state.actionHistory) > PLAYER_COUNT
    /\ state.gameOver
    /\ ProtocolShape
    /\ \A seat \in Seats :
          \E k \in 1..Len(GameCalls) :
              GameCalls[k].method = "onGameEnd" /\ GameCalls[k].seat = seat


\* the failed plays of a history, in order
FailedPlays(history) ==
    LET Failed(e) == e.type = "play" /\ ~e.success
    IN  SelectSeq(history, Failed)

Returns(function) ==
    IF state = Undefined /\ sim = NoSimulation /\ request.function = function
    THEN outcome.returns ELSE <<>>

\* the number of cards of a color and a value in an array of cards
CountOf(cards, color, value) ==
    Cardinality({i \in 1..Len(cards) : cards[i].color = color /\ cards[i].value = value})

\* C24: createDeck returns 50 cards with the ids 0..49, each once, and for
\* each of the five colors three 1s, two 2s, two 3s, two 4s and one 5
CreateDeckComposition ==
    \A k \in 1..Len(Returns("createDeck")) :
        LET deck == Returns("createDeck")[k].returned
        IN  /\ Len(deck) = 50
            /\ {deck[i].id : i \in 1..Len(deck)} = 0..49
            /\ \A i, j \in 1..Len(deck) : deck[i].id = deck[j].id => i = j
            /\ \A color \in {Red, Yellow, Green, Blue, White} :
                  /\ CountOf(deck, color, 1) = 3
                  /\ CountOf(deck, color, 2) = 2
                  /\ CountOf(deck, color, 3) = 2
                  /\ CountOf(deck, color, 4) = 2
                  /\ CountOf(deck, color, 5) = 1

\* C24 witness: createDeck was called and returned a deck
CreateDeckCompositionWitness ==
    /\ Len(Returns("createDeck")) > 0
    /\ Len(Returns("createDeck")[1].returned) > 0

\* card.id of every card, in order
IdOrder(cards) == [i \in 1..Len(cards) |-> cards[i].id]

DealBlocks ==
    \A k \in 1..Len(Returns("deal")) :
        LET dealt  == Returns("deal")[k].returned
            n      == request.playerCount
            size   == IF n <= 3 THEN 5 ELSE 4
            Held(card) == {<<p, i>> \in (0..(n - 1)) \X (1..size) :
                              dealt.hands[p][i] = card}
            Left(card) == {i \in 1..Len(dealt.deck) : dealt.deck[i] = card}
        IN  /\ DOMAIN dealt.hands = 0..(n - 1)
            /\ \A p \in 0..(n - 1) :
                  /\ Len(dealt.hands[p]) = size
                  /\ \A i \in 1..size :
                        dealt.hands[p][i] = request.deck[p * size + i]
            /\ Len(dealt.deck) = 50 - n * size
            /\ \A i \in 1..Len(dealt.deck) : dealt.deck[i] = request.deck[n * size + i]
            /\ \A j \in 1..Len(request.deck) :
                  Cardinality(Held(request.deck[j]))
                      + Cardinality(Left(request.deck[j])) = 1
            /\ n = PLAYER_COUNT =>
                  /\ \A p \in Seats : \A i \in 1..size :
                        deal(request.deck).hands[p][i] = request.deck[p * size + i]
                  /\ deal(request.deck).deck = dealt.deck

\* C26 witness: a shuffled deck was dealt to four or five players
DealBlocksWitness ==
    /\ Len(Returns("deal")) > 0
    /\ request.playerCount >= 4
    /\ request.deck # createDeck
    /\ Len(Returns("deal")[1].returned.deck) < 50

\* the stacks added up, color by color
PlainSum(playedStacks) ==
    playedStacks[Red] + playedStacks[Yellow] + playedStacks[Green]
        + playedStacks[Blue] + playedStacks[White]

\* C27: calculateScore returns the smaller of the sum of the stacks and 25
\* for every stacks passed, and on the stacks of every state of a game it is
\* the sum itself, which is at most 25
ScoreIsCappedSum ==
    /\ \A k \in 1..Len(Returns("calculateScore")) :
          LET sum == PlainSum(request.playedStacks)
          IN  Returns("calculateScore")[k].returned = IF sum < 25 THEN sum ELSE 25
    /\ state # Undefined =>
          /\ calculateScore(state.playedStacks) = PlainSum(state.playedStacks)
          /\ PlainSum(state.playedStacks) <= 25

\* C27 witness: calculateScore returned 25 for stacks that add up to more
ScoreIsCappedSumWitness ==
    /\ Len(Returns("calculateScore")) > 0
    /\ PlainSum(request.playedStacks) > 25
    /\ Returns("calculateScore")[1].returned = 25


ActionOfEvent(event) ==
    IF event.type = "play" THEN PlayAction(event.cardIndex)
    ELSE IF event.type = "discard" THEN DiscardAction(event.cardIndex)
    ELSE HintAction(event.targetPlayer, event.hintType, event.hintValue)

\* a new game on a given deck order: the state createInitialState makes, dealt
\* from that order
StateDealtFrom(deckOrder, hintTokens, lifeTokens) ==
    [hands               |-> deal(deckOrder).hands,
     playedStacks        |-> initialPlayedStacks,
     discardPile         |-> <<>>,
     hintTokens          |-> hintTokens,
     lifeTokens          |-> lifeTokens,
     currentPlayer       |-> 0,
     deck                |-> deal(deckOrder).deck,
     actionHistory       |-> <<>>,
     gameOver            |-> FALSE,
     endReason           |-> Undefined,
     finalRoundStarted   |-> Undefined,
     finalRoundTurnsLeft |-> Undefined,
     hintKnowledge       |-> <<>>]

\* the events executed again as actions, from the k-th on; a rejected action
\* stops the replay
RECURSIVE ReplayEvents(_, _, _)
ReplayEvents(st, events, k) ==
    IF k > Len(events) THEN st
    ELSE LET result == executeAction(st, ActionOfEvent(events[k]))
         IN  IF result.thrown # <<>> THEN st
             ELSE ReplayEvents(result.state, events, k + 1)

\* C22: the trace of a game captured in debug mode names the deck order the
\* game was dealt from, and its events executed again as actions on a state
\* dealt from that order give the same events and the final state of the trace
TraceReplay ==
    (sim.phase = "seeds" /\ sim.config.loggingMode = "debug" /\ sim.seedIndex > 1) =>
        /\ Len(sim.traces) = sim.seedIndex - 1
        /\ LET trace    == sim.traces[Len(sim.traces)]
               dealt    == sim.deals[sim.strategyIndex][Len(sim.traces)]
               replayed == ReplayEvents(
                               StateDealtFrom(trace.initialDeckOrder,
                                              sim.config.hintTokens,
                                              sim.config.lifeTokens),
                               trace.events, 1)
           IN  /\ trace.seed = sim.seeds[Len(sim.traces)]
               /\ Len(trace.initialDeckOrder) = 50
               /\ deal(trace.initialDeckOrder).hands = dealt.hands
               /\ deal(trace.initialDeckOrder).deck = dealt.deck
               /\ replayed.actionHistory = trace.events
               /\ replayed.gameOver
               /\ FinalStateOf(replayed) = trace.finalState
               /\ trace.finalState = FinalStateOf(state)

\* C22 witness: a trace with plays, discards or hints of both seats was
\* captured and the game ended after several turns
TraceReplayWitness ==
    /\ sim.phase = "seeds"
    /\ sim.config.loggingMode = "debug"
    /\ Len(sim.traces) > 0
    /\ LET trace == sim.traces[Len(sim.traces)]
       IN  /\ Len(trace.events) > PLAYER_COUNT
           /\ \E k \in 1..Len(trace.events) : trace.events[k].type = "hint"
           /\ \E k \in 1..Len(trace.events) : trace.events[k].type = "play"
           /\ trace.finalState.endReason \in {"lives_zero", "deck_empty", "max_score"}


\* the knowledge record of a card in a state, empty if it has none
KnowledgeOf(st, id) == Nullish(MapGet(st.hintKnowledge, id), EmptyKnowledge)

\* what is known and what is excluded in the dimension of a hint type
KnownIn(record, hintType) ==
    IF hintType = "color" THEN record.color ELSE record.value

ExcludedIn(record, hintType) ==
    IF hintType = "color" THEN Nullish(record.excludedColors, <<>>)
    ELSE Nullish(record.excludedValues, <<>>)

\* the card has the hinted color or number
Hinted(card, hintType, hintValue) ==
    IF hintType = "color" THEN card.color = hintValue ELSE card.value = hintValue

Elements(seq) == {seq[k] : k \in 1..Len(seq)}

\* C28: an executed Hint adds the hinted value to the exclusions of every
\* card of the target hand that does not match and whose hinted dimension is
\* not known, and the value is there once; the exclusions of a dimension that
\* is known are left as they are by every later action
OptionRemoval ==
    [][ExecutedStep =>
         /\ \A id \in 0..49, hintType \in {"color", "number"} :
               KnownIn(KnowledgeOf(state, id), hintType) # Undefined =>
                   ExcludedIn(KnowledgeOf(state', id), hintType)
                       = ExcludedIn(KnowledgeOf(state, id), hintType)
         /\ request'.type = "hint" =>
               \A k \in 1..Len(state.hands[request'.targetPlayer]) :
                   LET card   == state.hands[request'.targetPlayer][k]
                       before == ExcludedIn(KnowledgeOf(state, card.id), request'.hintType)
                       after  == ExcludedIn(KnowledgeOf(state', card.id), request'.hintType)
                   IN  (/\ ~Hinted(card, request'.hintType, request'.hintValue)
                        /\ KnownIn(KnowledgeOf(state, card.id), request'.hintType)
                               = Undefined)
                       => /\ Elements(after) = Elements(before) \cup {request'.hintValue}
                          /\ Cardinality(Elements(after)) = Len(after)
      ]_vars

\* C28 witness: a hint was executed on a hand holding a card that does not
\* match, whose hinted dimension is not known and which has two values
\* excluded in it, and a card whose hinted dimension is known and that does
\* not match either
OptionRemovalWitness ==
    /\ Executed
    /\ request.type = "hint"
    /\ \E k \in 1..Len(state.hands[request.targetPlayer]) :
          LET card == state.hands[request.targetPlayer][k]
          IN  /\ ~Hinted(card, request.hintType, request.hintValue)
              /\ KnownIn(KnowledgeOf(state, card.id), request.hintType) = Undefined
              /\ Len(ExcludedIn(KnowledgeOf(state, card.id), request.hintType)) >= 2
    /\ \E k \in 1..Len(state.hands[request.targetPlayer]) :
          LET card == state.hands[request.targetPlayer][k]
          IN  /\ ~Hinted(card, request.hintType, request.hintValue)
              /\ KnownIn(KnowledgeOf(state, card.id), request.hintType) # Undefined


\* C29: an executed Hint leaves every matching card of the target hand with
\* the hinted value known in the hinted dimension and with no exclusions
\* recorded for that dimension
MatchedHintOverwrites ==
    [][(request'.type = "hint" /\ ExecutedStep) =>
         \A k \in 1..Len(state.hands[request'.targetPlayer]) :
             LET card  == state.hands[request'.targetPlayer][k]
                 after == KnowledgeOf(state', card.id)
             IN  Hinted(card, request'.hintType, request'.hintValue) =>
                     /\ KnownIn(after, request'.hintType) = <<request'.hintValue>>
                     /\ ExcludedIn(after, request'.hintType) = <<>>
      ]_vars


\* C30: the first actor is seat 0, the event of an executed action names the
\* current player of before as its playerIndex, and the current player of
\* after is the next seat modulo the number of players of the game
RoundRobin ==
    /\ [](Len(state.actionHistory) = 0 => state.currentPlayer = 0)
    /\ [][ExecutedStep =>
            /\ outcome'.event[1].playerIndex = state.currentPlayer
            /\ state'.currentPlayer = (state.currentPlayer + 1) % state.playerCount
         ]_vars


\* C31: with a hint token left and a target seat other than the actor,
\* validateAction accepts a number hint iff its value is in 1..5, whether or
\* not a card of the target hand has that value, and rejects a color hint
\* that matches no card of the target hand
HintMatchingPolicy ==
    state.hintTokens > 0 =>
        \A target \in Seats \ {state.currentPlayer} :
            /\ \A value \in 0..6 :
                  (validateAction(state, HintAction(target, "number", value)) = <<>>)
                      <=> value \in 1..5
            /\ \A color \in {Red, Yellow, Green, Blue, White} :
                  (\A k \in 1..Len(state.hands[target]) :
                        state.hands[target][k].color # color)
                      => validateAction(state, HintAction(target, "color", color)) # <<>>

\* C31 witness: a number hint that matches no card of the target hand was
\* executed, in a state whose target hand lacks a color as well
HintMatchingPolicyWitness ==
    /\ Executed
    /\ request.type = "hint"
    /\ request.hintType = "number"
    /\ LastEvent.matchedCardIndices = <<>>
    /\ state.hintTokens > 0
    /\ \E color \in {Red, Yellow, Green, Blue, White} :
          \A target \in Seats \ {state.currentPlayer} :
              \A k \in 1..Len(state.hands[target]) :
                  state.hands[target][k].color # color


\* C32: the history is empty before the first call; a call of executeAction
\* that returns appends its event to actionHistory and leaves the earlier
\* events as they were, and a call that throws leaves the history alone
AppendOnlyHistory ==
    /\ [](request = NoRequest => state.actionHistory = <<>>)
    /\ [][/\ outcome'.thrown = <<>> =>
                /\ Len(state'.actionHistory) = Len(state.actionHistory) + 1
                /\ SubSeq(state'.actionHistory, 1, Len(state.actionHistory))
                       = state.actionHistory
                /\ state'.actionHistory[Len(state'.actionHistory)] = outcome'.event[1]
          /\ outcome'.thrown # <<>> => state'.actionHistory = state.actionHistory
         ]_vars

\* C32 witness: a history of plays, discards and hints, the last action
\* executed
AppendOnlyHistoryWitness ==
    /\ Executed
    /\ Len(state.actionHistory) >= 4
    /\ \E k \in 1..Len(state.actionHistory) : state.actionHistory[k].type = "hint"
    /\ \E k \in 1..Len(state.actionHistory) : state.actionHistory[k].type = "discard"
    /\ \E k \in 1..Len(state.actionHistory) : state.actionHistory[k].type = "play"


\* C33: a game whose decisions are all accepted reaches a terminal state
Termination == <>(state.gameOver)

\* C33 witness: a game of accepted actions that ran until the deck was used
\* up, hints given on the way, and ended
TerminationWitness ==
    /\ state.gameOver
    /\ state.endReason = Some("deck_empty")
    /\ Len(state.deck) = 0
    /\ Len(state.actionHistory) > 40
    /\ \E k \in 1..Len(state.actionHistory) : state.actionHistory[k].type = "hint"


\* C34: while the game is not over the current player holds a card and a
\* Play of slot 0 is accepted; every hand has the dealt size while the deck
\* has cards, and never fewer than the dealt size minus 1
NoStuckState ==
    /\ ~state.gameOver =>
           /\ Len(state.hands[state.currentPlayer]) > 0
           /\ validateAction(state, PlayAction(0)) = <<>>
    /\ Len(state.deck) > 0 =>
           \A seat \in Seats : Len(state.hands[seat]) = CARDS_PER_PLAYER
    /\ \A seat \in Seats : Len(state.hands[seat]) >= CARDS_PER_PLAYER - 1

\* C34 witness: the final round is running, the deck is used up, and the
\* current player can still play slot 0
NoStuckStateWitness ==
    /\ ~state.gameOver
    /\ Len(state.deck) = 0
    /\ Nullish(state.finalRoundStarted, FALSE)
    /\ Len(state.hands[state.currentPlayer]) > 0
    /\ validateAction(state, PlayAction(0)) = <<>>


\* the record says nothing the card contradicts
SoundFor(record, card) ==
    /\ record.color # Undefined => record.color[1] = card.color
    /\ record.value # Undefined => record.value[1] = card.value
    /\ card.color \notin Elements(Nullish(record.excludedColors, <<>>))
    /\ card.value \notin Elements(Nullish(record.excludedValues, <<>>))

\* C35: the knowledge replayed from the observation of any seat, for each of
\* its own slots and for each card it sees, never contradicts the card: a
\* known color or value is the card's, and the card's color and value are not
\* among the excluded ones
DerivedKnowledgeSound ==
    \A seat \in Seats :
        LET obs == buildObservation(state, seat)
        IN  /\ \A slot \in 0..(obs.ownHandSize - 1) :
                  SoundFor(Nullish(getOwnHintKnowledge(obs, slot), EmptyKnowledge),
                           state.hands[seat][slot + 1])
            /\ \A p \in DOMAIN obs.visibleHands :
                  \A k \in 1..Len(obs.visibleHands[p]) :
                      SoundFor(Nullish(getKnownToHolder(obs, state.hands[p][k].id),
                                       EmptyKnowledge),
                               state.hands[p][k])


\* C36: an executed Play or Discard of slot i takes exactly that card out of
\* the actor's hand and keeps the order of the others; with cards on the deck
\* the first of them becomes the last card of the hand and leaves the deck,
\* with none the hand is one shorter; the other hands are unchanged
HandAndDeckMovement ==
    [][(ExecutedStep /\ request'.type \in {"play", "discard"}) =>
          LET actor == state.currentPlayer
              hand  == state.hands[actor]
              i     == request'.cardIndex
              kept  == [k \in 1..(Len(hand) - 1) |->
                           IF k <= i THEN hand[k] ELSE hand[k + 1]]
          IN  /\ outcome'.event[1].card = hand[i + 1]
              /\ IF Len(state.deck) > 0
                 THEN /\ state'.hands[actor] = Append(kept, state.deck[1])
                      /\ state'.deck = SubSeq(state.deck, 2, Len(state.deck))
                 ELSE /\ state'.hands[actor] = kept
                      /\ Len(state'.hands[actor]) = Len(hand) - 1
                      /\ state'.deck = <<>>
              /\ \A seat \in Seats \ {actor} : state'.hands[seat] = state.hands[seat]
      ]_vars

\* C36 witness: the first card was taken from the hand with the deck used
\* up: the actor's hand is one shorter, the other hand is full
HandAndDeckMovementWitness ==
    /\ Executed
    /\ request.type \in {"play", "discard"}
    /\ request.cardIndex = 0
    /\ Len(state.deck) = 0
    /\ Len(state.hands[LastEvent.playerIndex]) = CARDS_PER_PLAYER - 1
    /\ \A seat \in Seats \ {LastEvent.playerIndex} :
           Len(state.hands[seat]) = CARDS_PER_PLAYER


\* the fields of the GameState a Hint may change
HintFields ==
    {"hintTokens", "hintKnowledge", "actionHistory", "currentPlayer",
     "finalRoundStarted", "finalRoundTurnsLeft", "gameOver", "endReason"}

\* the ids of the cards of a hand
HandIds(hand) == {hand[k].id : k \in 1..Len(hand)}

\* C37: an executed Hint changes no field of the state but the hint tokens,
\* the knowledge table, the history, the current player and the final-round
\* and game-end fields (hands, deck, discard pile, stacks and life tokens stay)
\* and leaves the knowledge record of every card outside the target hand as
\* it was
HintFrame ==
    [][(ExecutedStep /\ request'.type = "hint") =>
          /\ DOMAIN state' = DOMAIN state
          /\ \A field \in DOMAIN state \ HintFields : state'[field] = state[field]
          /\ \A id \in (DOMAIN state.hintKnowledge \cup DOMAIN state'.hintKnowledge)
                           \ HandIds(state.hands[request'.targetPlayer]) :
                 MapGet(state'.hintKnowledge, id) = MapGet(state.hintKnowledge, id)
      ]_vars

\* C37 witness: a hint was executed that matched a card, while the table
\* held a record of a card that is not in the target hand
HintFrameWitness ==
    /\ Executed
    /\ request.type = "hint"
    /\ Len(LastEvent.matchedCardIds) > 0
    /\ DOMAIN state.hintKnowledge \ HandIds(state.hands[request.targetPlayer]) # {}
    /\ Len(state.discardPile) > 0


SuccessfulPlays(history) ==
    LET Succeeded(e) == e.type = "play" /\ e.success
    IN  SelectSeq(history, Succeeded)

DiscardEvents(history) ==
    LET Discarded(e) == e.type = "discard"
    IN  SelectSeq(history, Discarded)

\* C39: the score is the number of successful Play events of the history,
\* the discard pile holds as many cards as there are Discard events and failed
\* Play events, and the life tokens lost since the start are the failed Play
\* events (life tokens plus failed plays stay what the game started with)
HistoryAccounting ==
    /\ [](/\ calculateScore(state.playedStacks)
                 = Len(SuccessfulPlays(state.actionHistory))
          /\ Len(state.discardPile)
                 = Len(DiscardEvents(state.actionHistory))
                   + Len(FailedPlays(state.actionHistory))
          /\ state.lifeTokens + Len(FailedPlays(state.actionHistory))
                 \in LifeTokenConfigs)
    /\ [][state'.lifeTokens + Len(FailedPlays(state'.actionHistory))
              = state.lifeTokens + Len(FailedPlays(state.actionHistory))]_vars

\* C39 witness: a game with successful plays, discards and two failed plays
\* behind it
HistoryAccountingWitness ==
    /\ Executed
    /\ Len(SuccessfulPlays(state.actionHistory)) >= 2
    /\ Len(DiscardEvents(state.actionHistory)) >= 2
    /\ Len(FailedPlays(state.actionHistory)) = 2
    /\ state.lifeTokens = MAX_LIFE_TOKENS - 2


\* C40: every stack is within 0..5 and no card (color, value) is played
\* successfully twice; a step leaves a stack as it is or raises it by exactly
\* 1, the latter only as the successful Play of a card of that color and the
\* new value; the score never goes down
StackMonotonicity ==
    /\ [](/\ \A color \in DOMAIN state.playedStacks :
                 state.playedStacks[color] \in 0..5
          /\ LET played == SuccessfulPlays(state.actionHistory)
             IN  \A j, k \in 1..Len(played) :
                     (played[j].card.color = played[k].card.color
                      /\ played[j].card.value = played[k].card.value) => j = k)
    /\ [][/\ \A color \in DOMAIN state.playedStacks :
                 \/ state'.playedStacks[color] = state.playedStacks[color]
                 \/ /\ state'.playedStacks[color] = state.playedStacks[color] + 1
                    /\ ExecutedStep
                    /\ request'.type = "play"
                    /\ outcome'.event[1].success
                    /\ outcome'.event[1].card.color = color
                    /\ outcome'.event[1].card.value = state'.playedStacks[color]
          /\ calculateScore(state'.playedStacks) >= calculateScore(state.playedStacks)
         ]_vars

\* C40 witness: the copy of a card that had been played successfully was
\* just played and failed; its stack is where it was, above the card
StackMonotonicityWitness ==
    /\ Executed
    /\ request.type = "play"
    /\ ~LastEvent.success
    /\ state.playedStacks[LastEvent.card.color] >= LastEvent.card.value
    /\ \E k \in 1..Len(state.actionHistory) :
           /\ state.actionHistory[k].type = "play"
           /\ state.actionHistory[k].success
           /\ state.actionHistory[k].card.color = LastEvent.card.color
           /\ state.actionHistory[k].card.value = LastEvent.card.value

====
